---- MODULE Spec2Model ----
(***************************************************************************)
(* A model of the research-paper-downloader core: the catalog store and    *)
(* its merge, the resolution of a professor's name to an author id (name   *)
(* matching, votes over sampled papers, author search) and the             *)
(* orchestrator loop with its persistence (modules/indexer.py), and the    *)
(* rate-limited API client and its limiter (modules/scholar_client.py)     *)
(* with its pacing gate as used by the download workers                    *)
(* (modules/downloader.py); the title extractor of the faculty scraper     *)
(* (modules/scrapers.py) and the abstract patcher                          *)
(* (downloader/patch_missing_abstracts.py).                                *)
(*                                                                         *)
(* Conventions.  Python's None (and an absent dict key read with .get) is  *)
(* None == -1.  A value 0 stands for a falsy value that is not None        *)
(* (0, "", {}, []); values > 0 are truthy.  Paper ids, author ids and      *)
(* names are positive integers.  Durations are integer milliseconds;       *)
(* the factors 1.2 and 0.85 are applied with integer division.             *)
(***************************************************************************)
EXTENDS Integers, Sequences, FiniteSets, TLC

\* ------------------------------------------------------------------ bounds
MaxAuthors == 2        \* external author ids 1..MaxAuthors
MaxPapers == 2         \* external paper ids 1..MaxPapers
MaxVal == 1            \* distinct truthy field values 1..MaxVal
MaxPayload == 1        \* papers in one author-papers response
MaxDay == 1            \* the date advances at most this many times
MaxNames == 2          \* local names in the professors file, 1..MaxNames
MaxRuns == 2           \* starts of the pipeline (first run, re-runs, restarts)
MaxThreads == 2        \* download workers calling the pacing gate
MaxTime == 5000        \* the gate's clock runs to this many ms
TickMs == 625          \* the gate's clock advances in steps of this many ms
MaxSample == 2         \* sample papers of a name looked up by Strategy A
MaxLog == 2            \* entries of error.txt
MaxRows == 2           \* rows of the CSV that miss an abstract
MaxFrames == 6         \* calls of fetch_abstract_safe the interpreter's
                       \* recursion limit lets nest

\* ------------------------------------------------------- program constants
MinInterval == 1250    \* config.MIN_INTERVAL, in ms
MaxInterval == 2000    \* RateLimiter max_interval, in ms
BackoffPct == 120      \* backoff factor 1.2
RelaxPct == 85         \* relax factor 0.85
Tries == 10            \* _retry_get tries
HardCapMs == 2000      \* min(wait, 2)
ShortSleepMs == 300    \* retry_after or 0.3, and time.sleep(0.3)
ServerErrorStepMs == 800   \* 0.8 * (i + 1)
max_papers == 5        \* resolve_author_id_via_papers max_papers
FetchSleepMs == 5000   \* fetch_abstract_safe: time.sleep(5)
MinAbstractLen == 30   \* main: len(str(abstract)) > 30

None == -1

AuthorIds == 1..MaxAuthors
PaperIds == 1..MaxPapers
Vals == 1..MaxVal

VARIABLES
    db,          \* the in-memory catalog: [professors, papers]
    today,       \* the current date (time.strftime("%Y-%m-%d"))
    fileState,   \* database.json: "absent", "ok" or "corrupt" (not JSON)
    fileData,    \* the catalog database.json holds when it is "ok"
    pc,          \* where update_from_professors_file is
    idx,         \* the position in the names of the professors file
    run,         \* history of the current run, and of the store file
    dynamic_interval,  \* RateLimiter.dynamic_interval, ms
    elapsed,     \* time.time() - RateLimiter.last, ms, counted up to MaxInterval
    cpc,         \* where _retry_get is: "idle", "loop" or "done"
    attempt,     \* the loop variable i of _retry_get
    call,        \* history of the current get call
    now,         \* the clock the download workers read, ms
    last,        \* RateLimiter.last as the download workers stamp it, ms
    tpc,         \* where each download worker is in RateLimiter.wait
    wake,        \* when each sleeping worker's time.sleep ends
    released,    \* when each worker last left RateLimiter.wait
    error_log,   \* error.txt: the entries appended so far
    res,         \* history of the identity resolution in progress or last done
    min_interval,  \* RateLimiter.min_interval, ms
    max_interval,  \* RateLimiter.max_interval, ms
    patch,       \* where patch_missing_abstracts is, and the call in progress
    extr         \* the title extraction in progress or last done

storeVars == <<db, today>>
orchVars == <<fileState, fileData, pc, idx, run>>
clientVars == <<dynamic_interval, elapsed, cpc, attempt, call>>
gateVars == <<now, last, tpc, wake, released>>
resolveVars == <<error_log, res>>
limVars == <<min_interval, max_interval>>
toolVars == <<patch, extr>>
vars == <<db, today, fileState, fileData, pc, idx, run,
          dynamic_interval, elapsed, cpc, attempt, call,
          now, last, tpc, wake, released, error_log, res,
          min_interval, max_interval, patch, extr>>

\* ------------------------------------------------------- python helpers
Truthy(v) == v # None /\ v # 0

\* Python's `a or b`
Or(a, b) == IF Truthy(a) THEN a ELSE b

Min(a, b) == IF a <= b THEN a ELSE b
Max(a, b) == IF a >= b THEN a ELSE b

\* The local (scraped) display name of a person, and the display name the
\* API gives to an author id: distinct strings, so different numbers.
LocalNames == 1..MaxNames
ApiName(aid) == 10 + aid

HierUni(name) == IF name % 2 = 1 THEN "UIUC" ELSE "Northwestern"
HierDept(name) == "Mechanical Engineering"

\* The text of a name: a sequence of characters ("nbsp" is U+00A0).  Local
\* names 1, 2, 3; the API's display names 11, 12, 13; 0 is "" and None is
\* a missing name.
NameText(n) ==
    CASE n = 1 -> <<"S","m","i","t","h",","," ","J",".">>
      [] n = 2 -> <<"P","e","t","e","r"," ","J","o","h","n","s","o","n">>
      [] n = 3 -> <<"J","a","n","e"," ","L","e","e","-","S","m","i","t","h">>
      [] n = 11 -> <<"J","o","h","n"," ","S","m","i","t","h">>
      [] n = 12 -> <<"J","o","h","n","s","o","n",","," ","M",".">>
      [] n = 13 -> <<"P",".","nbsp","J","o","h","n","s","o","n">>
      [] OTHER -> <<>>

\* ------------------------------------------------------ string operations
\* str.lower() on the letters that occur
UpperCase == <<"A","E","J","L","M","P","S">>
LowerCase == <<"a","e","j","l","m","p","s">>
Lower(c) ==
    IF \E i \in DOMAIN UpperCase : UpperCase[i] = c
    THEN LowerCase[CHOOSE i \in DOMAIN UpperCase : UpperCase[i] = c]
    ELSE c
LowerAll(s) == [i \in DOMAIN s |-> Lower(s[i])]

\* F applied to the value of v
Strict(F(_), v) == CHOOSE r \in {F(x) : x \in {v}} : TRUE

\* s.strip(chars)
Strip(s, chars) ==
    LET kept == {i \in DOMAIN s : s[i] \notin chars}
    IN  IF kept = {} THEN <<>>
        ELSE SubSeq(s, CHOOSE i \in kept : \A j \in kept : i <= j,
                       CHOOSE i \in kept : \A j \in kept : i >= j)

\* the non-empty pieces of re.split("[seps]+", s), in order
Runs(s, seps) ==
    LET starts == {i \in DOMAIN s : s[i] \notin seps /\ (i = 1 \/ s[i - 1] \in seps)}
        EndOf(i) == CHOOSE j \in i..Len(s) :
                        /\ \A m \in i..j : s[m] \notin seps
                        /\ (j = Len(s) \/ s[j + 1] \in seps)
        Nth(k) == CHOOSE i \in starts : Cardinality({j \in starts : j <= i}) = k
    IN  [k \in 1..Cardinality(starts) |-> SubSeq(s, Nth(k), EndOf(Nth(k)))]

\* " ".join(parts)
RECURSIVE JoinSpace(_)
JoinSpace(parts) ==
    IF parts = <<>> THEN <<>>
    ELSE IF Len(parts) = 1 THEN parts[1]
    ELSE parts[1] \o <<" ">> \o JoinSpace(Tail(parts))

\* `needle in hay`
Contains(hay, needle) ==
    \E i \in 0..(Len(hay) - Len(needle)) :
        SubSeq(hay, i + 1, i + Len(needle)) = needle

\* the characters re.sub(r"[()\"'...\[\]\-:;]", " ", s) blanks
Punctuation == {"(", ")", "\"", "'", "[", "]", "-", ":", ";"}

\* name_parts, lines 69-70: NBSP to space, strip
Unspaced(raw) ==
    Strip([i \in DOMAIN raw |-> IF raw[i] = "nbsp" THEN " " ELSE raw[i]], {" "})

\* name_parts, lines 72-75: "Last, First ..." is flipped to "First Last"
Flipped(s) ==
    LET stripped == Strict(LAMBDA pieces :
                               [i \in DOMAIN pieces |-> Strip(pieces[i], {" "})],
                           Runs(s, {","}))
        parts == SelectSeq(stripped, LAMBDA p : p # <<>>)
    IN  IF (\E i \in DOMAIN s : s[i] = ",") /\ Len(parts) >= 2
        THEN parts[2] \o <<" ">> \o parts[1]
        ELSE s

\* name_parts, lines 77-78: punctuation blanked, whitespace collapsed
Cleaned(s) ==
    JoinSpace(Runs([i \in DOMAIN s |-> IF s[i] \in Punctuation THEN " " ELSE s[i]],
                   {" "}))

\* what name_parts returns for an empty name or one without a token
NoParts == [last |-> <<>>, first |-> <<>>, initials |-> <<>>, raw |-> <<>>]

\* name_parts, lines 79-86, from the tokens with their dots stripped
PartsOfTokens(s_clean, tokens) ==
    LET named == SelectSeq(tokens, LAMBDA t : t # <<>>)
    IN  IF tokens = <<>> THEN NoParts
        ELSE [ last |-> LowerAll(tokens[Len(tokens)]),
               first |-> LowerAll(tokens[1]),
               initials |-> [i \in DOMAIN named |-> Lower(named[i][1])],
               raw |-> LowerAll(s_clean) ]

PartsOf(s_clean) ==
    Strict(LAMBDA split :
               Strict(LAMBDA tokens : PartsOfTokens(s_clean, tokens),
                      [i \in DOMAIN split |-> Strip(split[i], {"."})]),
           Runs(s_clean, {",", " "}))

\* name_parts: {"last", "first", "initials", "raw"} of a raw name
name_parts(raw) ==
    IF raw = <<>> THEN NoParts
    ELSE Strict(PartsOf, Strict(Cleaned, Strict(Flipped, Strict(Unspaced, raw))))

\* name_matches after name_parts accepting a full-name containment only
MatchesRawOnly(cand, targ) ==
    IF cand.last = <<>> \/ targ.last = <<>> THEN FALSE
    ELSE IF cand.last # targ.last THEN FALSE
    ELSE Contains(cand.raw, targ.raw) \/ Contains(targ.raw, cand.raw)
\* name_matches after name_parts without the test of the last names
MatchesIgnoringLast(cand, targ) ==
    IF cand.last = <<>> \/ targ.last = <<>> THEN FALSE
    ELSE IF Contains(cand.raw, targ.raw) \/ Contains(targ.raw, cand.raw) THEN TRUE
    ELSE IF /\ cand.initials # <<>> /\ targ.initials # <<>>
            /\ cand.initials[1] = targ.initials[1] THEN TRUE
    ELSE IF targ.first # <<>> /\ Contains(cand.raw, targ.first) THEN TRUE
    ELSE IF /\ targ.initials # <<>>
            /\ \E i \in DOMAIN cand.initials : cand.initials[i] = targ.initials[1]
         THEN TRUE
    ELSE IF /\ Len(cand.initials) = 1
            /\ SubSeq(cand.raw, 1, 1) = cand.initials THEN TRUE
    ELSE FALSE
\* name_matches after name_parts, lines 95-127
MatchesParts(cand, targ) ==
    IF cand.last = <<>> \/ targ.last = <<>> THEN FALSE
    ELSE IF cand.last # targ.last THEN FALSE
    ELSE IF Contains(cand.raw, targ.raw) \/ Contains(targ.raw, cand.raw) THEN TRUE
    ELSE IF /\ cand.initials # <<>> /\ targ.initials # <<>>
            /\ cand.initials[1] = targ.initials[1] THEN TRUE
    ELSE IF targ.first # <<>> /\ Contains(cand.raw, targ.first) THEN TRUE
    ELSE IF /\ targ.initials # <<>>
            /\ \E i \in DOMAIN cand.initials : cand.initials[i] = targ.initials[1]
         THEN TRUE
    ELSE IF /\ Len(cand.initials) = 1
            /\ SubSeq(cand.raw, 1, 1) = cand.initials
            /\ cand.last = targ.last THEN TRUE
    ELSE FALSE

\* name_matches(candidate_name, target_name)
name_matches(candidate_name, target_name) ==
    \E cand \in {name_parts(candidate_name)}, targ \in {name_parts(target_name)} :
        MatchesParts(cand, targ)

\* ------------------------------------------- the API's author-papers body
\* externalIds of a response: None (null/absent), 0 ({}), 1 ({DOI}),
\* 2 ({ArXiv}), 3 ({ArXiv, DOI}).
HasArXiv(ext) == ext \in {2, 3}
HasDOI(ext) == ext \in {1, 3}
\* f"https://arxiv.org/pdf/{ext['ArXiv']}.pdf" and f"https://doi.org/{ext['DOI']}"
ArxivPdfUrl(ext) == 100 + ext
DoiPdfUrl(ext) == 200 + ext

\* fetch_author_papers: the primary PDF and its fallbacks
PdfOf(paper) ==
    LET oap == paper.openAccessPdf
        ext == Or(paper.externalIds, 0)
    IN  IF Truthy(oap) THEN oap
        ELSE IF HasArXiv(ext) THEN ArxivPdfUrl(ext)
        ELSE IF HasDOI(ext) THEN DoiPdfUrl(ext)
        ELSE None

\* fetch_author_papers: one item of data -> one entry of out
ConvertPaper(paper) ==
    [ paperId     |-> paper.paperId,
      title       |-> paper.title,
      year        |-> Or(paper.year, 0),
      citations   |-> Or(paper.citationCount, 0),
      pdf_url     |-> PdfOf(paper),
      venue       |-> paper.venue,
      types       |-> paper.publicationTypes,
      url         |-> paper.url,
      externalIds |-> Or(paper.externalIds, 0),
      authors     |-> paper.authors ]

\* fetch_author_papers: a failed get (r is None) gives [], else every item
\* of data converted.
fetch_author_papers(resp) ==
    IF ~resp.ok THEN <<>>
    ELSE [i \in DOMAIN resp.data |-> ConvertPaper(resp.data[i])]

\* --------------------------------------------------------------- the merge
\* db["papers"].get(pid, {}) read with .get(field): None for every field,
\* [] for authors.
NoPaper ==
    [ paperId |-> None, title |-> None, year |-> None, citations |-> None,
      pdf_url |-> None, url |-> None, externalIds |-> None, venue |-> None,
      types |-> None, last_seen |-> None, authors |-> <<>> ]

Existing(d, pid) == IF pid \in DOMAIN d.papers THEN d.papers[pid] ELSE NoPaper

AuthorIdsOf(list) == {list[i].authorId : i \in DOMAIN list}

\* the loop over p["authors"]: append every author not in authors_seen and
\* add it to authors_seen
RECURSIVE MergeApiAuthors(_, _, _)
MergeApiAuthors(authors_list, authors_seen, api) ==
    IF api = <<>> THEN authors_list
    ELSE LET a == Head(api)
         IN  IF a.authorId \notin authors_seen
             THEN MergeApiAuthors(Append(authors_list, a),
                                  authors_seen \cup {a.authorId}, Tail(api))
             ELSE MergeApiAuthors(authors_list, authors_seen, Tail(api))

\* MergeAuthors with the owner appended without looking at authors_seen
MergeAuthorsOwnerAlways(existing_authors, author_id, author_name, api) ==
    MergeApiAuthors(Append(existing_authors,
                           [authorId |-> author_id, name |-> author_name]),
                    AuthorIdsOf(existing_authors), api)

\* the authors list rebuilt from the owner and the fetched paper alone
MergeAuthorsRebuilt(existing_authors, author_id, author_name, api) ==
    MergeApiAuthors(<<[authorId |-> author_id, name |-> author_name]>>, {}, api)

\* authors_seen is built from the existing list; the owner is appended when
\* not in it, and authors_seen is left as it was.
MergeAuthors(existing_authors, author_id, author_name, api) ==
    LET authors_seen == AuthorIdsOf(existing_authors)
        withOwner == IF author_id \notin authors_seen
                     THEN Append(existing_authors,
                                 [authorId |-> author_id, name |-> author_name])
                     ELSE existing_authors
    IN  MergeApiAuthors(withOwner, authors_seen, api)

\* p.get("citations") if p.get("citations") is not None else existing
MergeCitations(new, old) == IF new # None THEN new ELSE old

\* the dict `merged` built for one fetched paper
MergedPaper(existing, p, author_id, author_name, date) ==
    [ paperId     |-> p.paperId,
      title       |-> Or(p.title, existing.title),
      year        |-> Or(p.year, existing.year),
      citations   |-> MergeCitations(p.citations, existing.citations),
      pdf_url     |-> Or(p.pdf_url, existing.pdf_url),
      url         |-> Or(p.url, existing.url),
      externalIds |-> Or(p.externalIds, existing.externalIds),
      venue       |-> Or(p.venue, existing.venue),
      types       |-> Or(p.types, existing.types),
      last_seen   |-> date,
      authors     |-> MergeAuthors(existing.authors, author_id, author_name,
                                   p.authors) ]

\* the body of `for p in papers`: a paper without paperId is skipped
RECURSIVE MergeLoop(_, _, _, _, _, _)
MergeLoop(d, paper_ids, papers, author_id, author_name, date) ==
    IF papers = <<>> THEN [db |-> d, paper_ids |-> paper_ids]
    ELSE LET p == Head(papers)
         IN  IF ~Truthy(p.paperId)
             THEN MergeLoop(d, paper_ids, Tail(papers), author_id, author_name, date)
             ELSE LET merged == MergedPaper(Existing(d, p.paperId), p,
                                            author_id, author_name, date)
                      pmap == [q \in DOMAIN d.papers \cup {p.paperId} |->
                                  IF q = p.paperId THEN merged ELSE d.papers[q]]
                  IN  MergeLoop([d EXCEPT !.papers = pmap],
                                paper_ids \cup {p.paperId}, Tail(papers),
                                author_id, author_name, date)

\* sorted(paper_ids)
RECURSIVE SortedSeq(_)
SortedSeq(S) ==
    IF S = {} THEN <<>>
    ELSE LET m == CHOOSE x \in S : \A y \in S : x <= y
         IN  <<m>> \o SortedSeq(S \ {m})

SeqToSet(s) == {s[i] : i \in DOMAIN s}

\* update_professor_papers returning the ids without storing the papers
update_professor_papersUnstored(author_id, d, author_name, papers, date) ==
    [db |-> d,
     paper_ids |-> SortedSeq({papers[i].paperId : i \in DOMAIN papers})]
\* update_professor_papers: returns (db, sorted(paper_ids)), or (db, [])
\* when the fetch gave nothing
update_professor_papers(author_id, d, author_name, papers, date) ==
    LET paper_ids == IF author_id \in DOMAIN d.professors
                     THEN SeqToSet(d.professors[author_id].paperIds)
                     ELSE {}
    IN  IF papers = <<>> THEN [db |-> d, paper_ids |-> <<>>]
        ELSE LET r == MergeLoop(d, paper_ids, papers, author_id, author_name, date)
             IN  [db |-> r.db, paper_ids |-> SortedSeq(r.paper_ids)]

\* upsert_professor: the record is replaced whole
upsert_professor(d, author_id, name, uni, dept, paper_ids, date) ==
    LET rec == [ authorId |-> author_id, name |-> name, university |-> uni,
                 department |-> dept, paperIds |-> paper_ids,
                 last_updated |-> date ]
    IN  [d EXCEPT !.professors =
            [a \in DOMAIN d.professors \cup {author_id} |->
                IF a = author_id THEN rec ELSE d.professors[a]]]

\* lines 296-297 of the orchestrator: fetch, merge, upsert
MergeFetched(d, author_id, name, resp, date) ==
    LET r == update_professor_papers(author_id, d, name,
                                     fetch_author_papers(resp), date)
    IN  upsert_professor(r.db, author_id, name, HierUni(name), HierDept(name),
                         r.paper_ids, date)

EmptyDb == [professors |-> <<>>, papers |-> <<>>]

\* ------------------------------------------------- identity resolution
\* name_matches over the names that occur, candidate first
NameCodes == LocalNames \cup {ApiName(aid) : aid \in AuthorIds}
MatchTable ==
    [c \in NameCodes |->
        [t \in NameCodes |-> name_matches(NameText(c), NameText(t))]]

\* a list-valued field of a JSON body: not in the dict, null, or a list
AbsentField == [is |-> "absent", items |-> <<>>]
NullField == [is |-> "null", items |-> <<>>]
ListField(items) == [is |-> "list", items |-> items]
\* dict.get(key, []): the default only stands in for a key that is not there
GetOrEmpty(field) == IF field.is = "absent" THEN ListField(<<>>) ELSE field

\* author_hits[cand_id] += 1; the Counter keeps its keys in insertion order.
\* names: the display names that voted for the id.
AddHit(hits, cand_id, cand_name) ==
    IF \E i \in DOMAIN hits : hits[i].id = cand_id
    THEN [i \in DOMAIN hits |->
            IF hits[i].id = cand_id
            THEN [hits[i] EXCEPT !.count = @ + 1, !.names = @ \cup {cand_name}]
            ELSE hits[i]]
    ELSE Append(hits, [id |-> cand_id, count |-> 1, names |-> {cand_name}])

\* `for a in r.get("authors", [])`: an entry without a name or an id is
\* skipped; an author whose name matches the local name gets a vote
RECURSIVE VoteAuthors(_, _, _)
VoteAuthors(hits, name, authors) ==
    IF authors = <<>> THEN hits
    ELSE LET a == Head(authors)
         IN  IF ~Truthy(a.name) \/ ~Truthy(a.authorId)
             THEN VoteAuthors(hits, name, Tail(authors))
             ELSE IF MatchTable[a.name][name]
             THEN VoteAuthors(AddHit(hits, a.authorId, a.name), name, Tail(authors))
             ELSE VoteAuthors(hits, name, Tail(authors))

\* `for r in results`: authors missing reads as [], authors null makes
\* the inner `for` raise TypeError
RECURSIVE VoteResults(_, _, _)
VoteResults(hits, name, results) ==
    IF results = <<>> THEN [hits |-> hits, raised |-> FALSE]
    ELSE LET authors == GetOrEmpty(Head(results).authors)
         IN  IF authors.is = "null" THEN [hits |-> hits, raised |-> TRUE]
             ELSE VoteResults(VoteAuthors(hits, name, authors.items),
                              name, Tail(results))

\* search_papers as its caller sees it: [] after a failed get, the body's
\* data (read with the default []) otherwise; a body that is not JSON raises
search_papers(resp) ==
    IF resp.kind = "failed" THEN [raised |-> FALSE, results |-> ListField(<<>>)]
    ELSE IF resp.kind = "badjson" THEN [raised |-> TRUE, results |-> ListField(<<>>)]
    ELSE [raised |-> FALSE, results |-> GetOrEmpty(resp.data)]

\* one iteration of `for paper in sample_papers`: no title, an exception of
\* search_papers (caught) and no results leave author_hits as it was
VotePaper(hits, name, outcome) ==
    IF outcome.kind = "notitle" THEN [hits |-> hits, raised |-> FALSE]
    ELSE LET s == search_papers(outcome)
         IN  IF s.raised THEN [hits |-> hits, raised |-> FALSE]
             ELSE IF s.results.is = "null" \/ s.results.items = <<>>
             THEN [hits |-> hits, raised |-> FALSE]
             ELSE VoteResults(hits, name, s.results.items)

\* the first key of the Counter, whatever its count
BestIdFirstKey(hits) == IF hits = <<>> THEN None ELSE hits[1].id
\* author_hits.most_common(1)[0][0]: the first key, in insertion order, whose
\* count is the largest; None when there is no hit
BestId(hits) ==
    IF hits = <<>> THEN None
    ELSE LET i == CHOOSE i \in DOMAIN hits :
                     /\ \A j \in DOMAIN hits : hits[j].count <= hits[i].count
                     /\ \A j \in 1..(i - 1) : hits[j].count < hits[i].count
         IN  hits[i].id

\* the loop over the sample, from the hits so far
RECURSIVE VoteSample(_, _, _)
VoteSample(hits, name, sample) ==
    IF sample = <<>> THEN [hits |-> hits, raised |-> FALSE]
    ELSE LET v == VotePaper(hits, name, Head(sample))
         IN  IF v.raised THEN v ELSE VoteSample(v.hits, name, Tail(sample))

\* resolve_author_id_via_papers(name, papers): Strategy A
resolve_author_id_via_papers(name, sample) ==
    LET v == VoteSample(<<>>, name, sample)
    IN  [raised |-> v.raised, hits |-> v.hits,
         author_id |-> IF v.raised THEN None ELSE BestId(v.hits)]

\* the professors of the store that carry the local name
KnownIds(d, name) ==
    {aid \in DOMAIN d.professors : d.professors[aid].name = name}

\* the line written to error.txt
LogEntry(name, candidates, date) ==
    [date |-> date, name |-> name, candidates |-> candidates]

\* resolve_author_id with more than one candidate returning the first one
AmbiguousTakesFirst(name, candidates, date) ==
    [author_id |-> candidates[1].authorId, log |-> <<>>,
     accepted |-> candidates[1].name]
\* resolve_author_id with more than one candidate returning None silently
AmbiguousUnlogged(name, candidates, date) ==
    [author_id |-> None, log |-> <<>>, accepted |-> None]
\* lines 185-203: every candidate goes to error.txt in one entry, no id
Ambiguous(name, candidates, date) ==
    [author_id |-> None, log |-> <<LogEntry(name, candidates, date)>>,
     accepted |-> None]

\* resolve_author_id, Strategy B.  known: the professor record of the store
\* that carries the name (the first one the loop over the dict meets), None
\* when there is none.  Every exception is caught and gives None.
resolve_author_id(name, known, resp, date) ==
    LET none == [author_id |-> None, log |-> <<>>, accepted |-> None]
    IN  IF known # None
        THEN [author_id |-> known, log |-> <<>>, accepted |-> None]
        ELSE IF resp.kind # "ok" THEN none
        ELSE LET candidates == GetOrEmpty(resp.data)
             IN  IF candidates.is = "null" \/ candidates.items = <<>> THEN none
                 ELSE IF Len(candidates.items) > 1
                 THEN Ambiguous(name, candidates.items, date)
                 ELSE [author_id |-> candidates.items[1].authorId, log |-> <<>>,
                       accepted |-> candidates.items[1].name]

\* line 291: resolve_author_id_via_papers(...) or resolve_author_id(...)
Resolution(name, known, sample, resp, date) ==
    LET a == resolve_author_id_via_papers(name, sample)
    IN  IF a.raised
        THEN [raised |-> TRUE, author_id |-> None, log |-> <<>>]
        ELSE IF Truthy(a.author_id)
        THEN [raised |-> FALSE, author_id |-> a.author_id, log |-> <<>>]
        ELSE LET b == resolve_author_id(name, known, resp, date)
             IN  [raised |-> FALSE, author_id |-> b.author_id, log |-> b.log]

\* ------------------------------------------------------- the rate limiter
\* RateLimiter.backoff, relax and reset, as the new dynamic_interval
\* backoff without the ceiling
backoffUncapped(interval) == (interval * BackoffPct) \div 100
backoff(interval) == Min(max_interval, (interval * BackoffPct) \div 100)
\* relax leaving the interval as it is
relaxKeeps(interval) == interval
relax(interval) == Max(min_interval, (interval * RelaxPct) \div 100)
\* _retry_get without the call of limiter.reset()
resetSkipped == dynamic_interval
reset == min_interval

\* RateLimiter.wait stamping without sleeping
WaitNoSleep(delta, interval) == 0
\* RateLimiter.wait: the time slept, given the time since the last stamp
WaitSleep(delta, interval) == IF delta < interval THEN interval - delta ELSE 0

\* elapsed time is counted up to MaxInterval: wait compares it with an
\* interval that is never larger
Later(t, d) == Min(t + d, MaxInterval)

\* ------------------------------------------------------ the states at rest
NoCall == [requests |-> 0, n429 |-> 0, other |-> FALSE, enforced |-> 0,
           slept |-> 0, result |-> "none",
           after |-> "none", hint |-> None, paused |-> 0, gap |-> 0,
           apart |-> 0, first |-> 0, before |-> 0]
NoRun == [count |-> 0, startedCorrupt |-> FALSE, processed |-> 0,
          attempted |-> <<>>]
NoRes == [pc |-> "idle", name |-> 0, k |-> 0, hits |-> <<>>, listed |-> {},
          via_papers |-> None, author_id |-> None, candidates |-> <<>>,
          accepted |-> None, log_before |-> 0]

StoreIdle == db = EmptyDb /\ today = 0
OrchIdle ==
    /\ fileState = "absent" /\ fileData = EmptyDb /\ pc = "start" /\ idx = 1
    /\ run = NoRun
\* RateLimiter.__init__: dynamic_interval = min_interval, last = 0.0 (long ago)
ClientIdle ==
    /\ dynamic_interval = MinInterval /\ elapsed = MaxInterval
    /\ cpc = "idle" /\ attempt = 0 /\ call = NoCall
\* no resolution yet, error.txt not there
ResolveIdle == error_log = <<>> /\ res = NoRes
\* patch_missing_abstracts not started; no title extraction yet
NoPatch == [pc |-> "idle", row |-> 0, depth |-> 0, requests |-> 0, n429 |-> 0,
            paused |-> 0, result |-> None, patched |-> {}]
\* li: the citation; raw: its text; stage: the stage at work; by: the stage
\* whose title was returned, 0 when None was
NoExt == [pc |-> "idle", li |-> <<>>, raw |-> <<>>, stage |-> 0, by |-> 0, title |-> <<>>]
ToolIdle == patch = NoPatch /\ extr = NoExt
\* RateLimiter(config.MIN_INTERVAL): min_interval and the default max_interval
LimIdle == min_interval = MinInterval /\ max_interval = MaxInterval
Threads == 1..MaxThreads
GateIdle ==
    /\ now = MaxInterval /\ last = 0
    /\ tpc = [t \in Threads |-> "idle"]
    /\ wake = [t \in Threads |-> 0]
    /\ released = [t \in Threads |-> None]

\* ------------------------------------------ inputs of the merge actions
\* A response item with every metadata field present (value v) or absent.
FullPaper(pid, v, ext, authors) ==
    [ paperId |-> pid, title |-> v, year |-> v, citationCount |-> v,
      openAccessPdf |-> v, url |-> v, externalIds |-> ext, venue |-> v,
      publicationTypes |-> v, authors |-> authors ]

BarePaper(pid, authors) == FullPaper(pid, None, None, authors)

ApiAuthor(aid) == [authorId |-> aid, name |-> ApiName(aid)]

\* author lists of a response: any set of authors, by ascending id
ApiAuthorLists ==
    {[i \in DOMAIN SortedSeq(S) |-> ApiAuthor(SortedSeq(S)[i])] : S \in SUBSET AuthorIds}

RECURSIVE SeqsUpTo(_, _)
SeqsUpTo(S, n) ==
    IF n = 0 THEN {<<>>}
    ELSE LET shorter == SeqsUpTo(S, n - 1)
         IN  shorter \cup {Append(s, x) : s \in shorter, x \in S}

\* the responses the merge is driven with: a failed get, or a list of up to
\* MaxPayload papers (ids in any order, repeats included) that carry the
\* same metadata and the same author list
FailedResponse == [ok |-> FALSE, data |-> <<>>]
MergeResponses ==
    {FailedResponse}
    \cup {[ok |-> TRUE, data |-> [i \in DOMAIN ps |-> BarePaper(ps[i], al)]] :
            ps \in SeqsUpTo(PaperIds, MaxPayload), al \in ApiAuthorLists}
    \cup {[ok |-> TRUE, data |-> [i \in DOMAIN ps |-> FullPaper(ps[i], v, 1, al)]] :
            ps \in SeqsUpTo(PaperIds, MaxPayload) \ {<<>>},
            v \in Vals, al \in ApiAuthorLists}

\* ------------------------------------------------- SpecMerge: merges only
InitMerge ==
    StoreIdle /\ OrchIdle /\ ClientIdle /\ GateIdle /\ ResolveIdle /\ LimIdle /\ ToolIdle

\* one fetch-merge-upsert for an owning author, under the local name of
\* that author
MergeStep ==
    \E author_id \in AuthorIds, resp \in MergeResponses :
        /\ db' = MergeFetched(db, author_id, author_id, resp, today)
        /\ UNCHANGED <<today, orchVars, clientVars, gateVars, resolveVars, limVars, toolVars>>

NextMerge == MergeStep

SpecMerge == InitMerge /\ [][NextMerge]_vars

\* --------------------------------------- Spec: the orchestrator and its file
\* the responses of the author-papers fetch in a run: a failed get, an empty
\* list, one paper, or all papers, each with the given authors
RunResponses ==
    {FailedResponse, [ok |-> TRUE, data |-> <<>>]}
    \cup {[ok |-> TRUE, data |-> <<FullPaper(pid, 1, 1, al)>>] :
            pid \in PaperIds, al \in {<<>>, <<ApiAuthor(1)>>}}
    \cup {[ok |-> TRUE, data |-> [i \in PaperIds |-> FullPaper(i, 1, 1, <<>>)]]}

\* _load_db: the file's catalog, or an empty one when the file is absent or
\* cannot be parsed (the except branch)
load_db == IF fileState = "ok" THEN fileData ELSE EmptyDb

\* database.json is absent before the first run, or is there and not
\* parseable (left so by an interrupted write or a damaged disk)
Init ==
    /\ StoreIdle /\ ClientIdle /\ GateIdle /\ ResolveIdle /\ LimIdle /\ ToolIdle
    /\ fileState \in {"absent", "corrupt"}
    /\ fileData = EmptyDb /\ pc = "start" /\ idx = 1
    /\ run = NoRun

\* update_from_professors_file, lines 279-282: load the names and the store.
\* A run may start on a later day than the one before.
StartRun ==
    /\ pc = "start" /\ run.count < MaxRuns
    /\ db' = load_db
    /\ \E d \in {today, today + 1} : d <= MaxDay /\ today' = d
    /\ pc' = "loop" /\ idx' = 1
    /\ run' = [count |-> run.count + 1,
                startedCorrupt |-> (fileState = "corrupt"),
                processed |-> 0, attempted |-> <<>>]
    /\ UNCHANGED <<fileState, fileData, clientVars, gateVars, resolveVars, limVars, toolVars>>

\* the outcomes of the paper search for one sample paper
NoTitle == [kind |-> "notitle", data |-> AbsentField]
FailedSearch == [kind |-> "failed", data |-> AbsentField]
BadJson == [kind |-> "badjson", data |-> AbsentField]
Body(data) == [kind |-> "ok", data |-> data]
Found(authors) == Body(ListField(<<[authors |-> authors]>>))
Listed(aid, n) == [authorId |-> aid, name |-> n]

\* the paper searches of one name in a run: nothing found, a paper listing
\* an author under the display name "John Smith", or a paper whose authors
\* field is null
ServedSamples ==
    {<<FailedSearch>>}
    \cup {<<Found(ListField(<<Listed(a, ApiName(1))>>))>> : a \in AuthorIds}
RunSamples == ServedSamples \cup {<<Found(NullField)>>}

\* the author searches of one name in a run: nothing, one candidate, or
\* every author as a candidate
RunCandidates ==
    {FailedSearch, Body(ListField([a \in AuthorIds |-> Listed(a, ApiName(a))]))}
    \cup {Body(ListField(<<Listed(a, ApiName(a))>>)) : a \in AuthorIds}

\* the record the loop of resolve_author_id returns for a name: the model
\* keeps no order of the professors, so any record with that name
KnownChoices(d, name) ==
    IF KnownIds(d, name) = {} THEN {None} ELSE KnownIds(d, name)

\* `continue` skipping the name after the current one too
SkipsName(i) == i + 2
\* `continue`: the loop takes the next name
NextName(i) == i + 1

\* one iteration of the loop over names up to _save_db, for given answers
\* of the API: an exception of the resolution ends the run; no author id
\* resolved (continue); or fetch, merge and upsert
ProcessNameStep(sample, cands, resp, known) ==
    LET r == Resolution(idx, known, sample, cands, today)
    IN  /\ pc = "loop" /\ idx <= MaxNames
        /\ IF r.raised
           THEN /\ pc' = "aborted"
                /\ UNCHANGED <<db, idx, error_log>>
           ELSE IF ~Truthy(r.author_id)
           THEN /\ idx' = NextName(idx)
                /\ error_log' = error_log \o r.log
                /\ UNCHANGED <<db, pc>>
           ELSE /\ db' = MergeFetched(db, r.author_id, idx, resp, today)
                /\ pc' = "save"
                /\ UNCHANGED <<idx, error_log>>
        /\ run' = [run EXCEPT !.processed = 1, !.attempted = Append(@, idx)]
        /\ UNCHANGED <<today, fileState, fileData, res,
                       clientVars, gateVars, limVars, toolVars>>

ProcessNameFrom(samples, candidates) ==
    \E sample \in samples, cands \in candidates, resp \in RunResponses,
       known \in KnownChoices(db, idx) :
        ProcessNameStep(sample, cands, resp, known)

ProcessName == ProcessNameFrom(RunSamples, RunCandidates)

\* _save_db, first half: write_text opens the file for writing, which
\* truncates it; until the text is written and flushed the file is not JSON
SaveOpen ==
    /\ pc = "save"
    /\ fileState' = "corrupt"
    /\ pc' = "writing"
    /\ UNCHANGED <<db, today, fileData, idx, run, clientVars, gateVars, resolveVars, limVars, toolVars>>

\* _save_db, second half: the whole catalog is written; then sleep(1.0) and
\* the next name
SaveWrite ==
    /\ pc = "writing"
    /\ fileState' = "ok" /\ fileData' = db
    /\ pc' = "loop" /\ idx' = idx + 1
    /\ UNCHANGED <<db, today, run, clientVars, gateVars, resolveVars, limVars, toolVars>>

\* lines 302-303: the loop is over
FinishRun ==
    /\ pc = "loop" /\ idx > MaxNames
    /\ pc' = "done"
    /\ UNCHANGED <<db, today, fileState, fileData, idx, run, clientVars, gateVars, resolveVars, limVars, toolVars>>

\* the pipeline is run again, after a run that ended or was aborted
NextRun ==
    /\ pc \in {"done", "aborted"}
    /\ pc' = "start"
    /\ UNCHANGED <<db, today, fileState, fileData, idx, run, clientVars, gateVars, resolveVars, limVars, toolVars>>

\* the process dies (kill, power loss) at any point of a run; memory is
\* lost, the file stays as it is, and the pipeline is started again
Crash ==
    /\ pc \in {"loop", "save", "writing"}
    /\ db' = EmptyDb
    /\ pc' = "start"
    /\ UNCHANGED <<today, fileState, fileData, idx, run, clientVars, gateVars, resolveVars, limVars, toolVars>>

Next == StartRun \/ ProcessName \/ SaveOpen \/ SaveWrite \/ FinishRun
        \/ NextRun \/ Crash

Spec == Init /\ [][Next]_vars

\* ------------- SpecLive: runs that are not killed, with well-formed answers
\* the loop body when the API answers with a payload, an empty result or
\* a failure (rate limiting, server errors, transport failures to the end
\* of the retry budget)
ProcessNameServed == ProcessNameFrom(ServedSamples, RunCandidates)

RunStep == ProcessNameServed \/ SaveOpen \/ SaveWrite \/ FinishRun

\* one call of update_from_professors_file, from its start to its return
NextLive == StartRun \/ RunStep

\* a process that is not killed keeps executing its next statement
SpecLive == Init /\ [][NextLive]_vars /\ WF_vars(RunStep)

\* ------------------------------------------- SpecClient: ScholarClient
\* what the upstream sends with a 429: no Retry-After header or one that
\* float() rejects (None), or a number of ms
RetryAfterHints == {None, 0, 1000, 1900, 5000}
\* how long one HTTP request takes, ms
RequestTimes == {0, 500}

\* the sleep after a 429 without the cap
RetrySleep429Uncapped(interval, hint) ==
    Max(interval, IF Truthy(hint) THEN hint ELSE ShortSleepMs)
\* the sleep after a 429: max(dynamic_interval, retry_after or 0.3), capped
RetrySleep429(interval, hint) ==
    Min(Max(interval, IF Truthy(hint) THEN hint ELSE ShortSleepMs), HardCapMs)
\* the sleep after a 500, 502, 503 or 504
RetrySleep5xx(i) == Min(HardCapMs, ServerErrorStepMs * (i + 1))

\* `for i in range(tries)`: iteration i was the last one
LoopEndsOneLate(i) == i >= Tries
LoopEnds(i) == i + 1 >= Tries

\* the call's history after limiter.wait() and one more request; gap is
\* the time slept since the request before: the retry sleep and the gate's;
\* apart is the time from the stamp before to the new stamp; first is
\* the interval wait enforced before the call's first request
Waited(c) ==
    [c EXCEPT !.requests = c.requests + 1,
              !.enforced = IF c.n429 > 0 THEN dynamic_interval ELSE c.enforced,
              !.slept = WaitSleep(elapsed, dynamic_interval),
              !.gap = c.paused + WaitSleep(elapsed, dynamic_interval),
              !.apart = elapsed + WaitSleep(elapsed, dynamic_interval),
              !.first = IF c.requests = 0 THEN dynamic_interval ELSE c.first]

InitClient ==
    StoreIdle /\ OrchIdle /\ ClientIdle /\ GateIdle /\ ResolveIdle /\ LimIdle /\ ToolIdle

\* _retry_get is entered: limiter.reset(); time has passed since the
\* last call
CallGet ==
    /\ cpc = "idle"
    /\ dynamic_interval' = reset
    /\ \E idle \in RequestTimes : elapsed' = Later(elapsed, idle)
    /\ attempt' = 0 /\ call' = [NoCall EXCEPT !.before = dynamic_interval]
    /\ cpc' = "loop"
    /\ UNCHANGED <<storeVars, orchVars, gateVars, resolveVars, limVars, toolVars>>

\* an iteration that gets a 200: wait, request, relax, return r
Attempt200 ==
    /\ cpc = "loop"
    /\ \E t \in RequestTimes : elapsed' = t
    /\ dynamic_interval' = relax(dynamic_interval)
    /\ call' = [Waited(call) EXCEPT !.result = "ok", !.after = "200",
                                    !.hint = None, !.paused = 0]
    /\ cpc' = "done"
    /\ UNCHANGED <<attempt, storeVars, orchVars, gateVars, resolveVars, limVars, toolVars>>

\* the end of an iteration that did not return: next i, or return None
\* when range(tries) is exhausted
Continue ==
    IF LoopEnds(attempt)
    THEN cpc' = "done" /\ UNCHANGED attempt
    ELSE cpc' = "loop" /\ attempt' = attempt + 1

\* the 429 branch returning None at once
After429GiveUp == cpc' = "done" /\ UNCHANGED attempt
\* the 429 branch: backoff, then sleep, then continue (the line
\* `continue` of a 429 surfaces nothing to the caller)
After429 == Continue

\* an iteration that gets a 429
Attempt429 ==
    /\ cpc = "loop"
    /\ dynamic_interval' = backoff(dynamic_interval)
    /\ \E t \in RequestTimes, hint \in RetryAfterHints :
          LET wait == RetrySleep429(backoff(dynamic_interval), hint)
          IN  /\ elapsed' = Later(t, wait)
              /\ call' = [Waited(call) EXCEPT !.n429 = call.n429 + 1,
                                              !.after = "429", !.hint = hint,
                                              !.paused = wait]
    /\ After429
    /\ UNCHANGED <<storeVars, orchVars, gateVars, resolveVars, limVars, toolVars>>

\* an iteration that gets a 500, 502, 503 or 504
Attempt5xx ==
    /\ cpc = "loop"
    /\ \E t \in RequestTimes : elapsed' = Later(t, RetrySleep5xx(attempt))
    /\ call' = [Waited(call) EXCEPT !.other = TRUE, !.after = "5xx",
                                    !.hint = None,
                                    !.paused = RetrySleep5xx(attempt)]
    /\ Continue
    /\ UNCHANGED <<dynamic_interval, storeVars, orchVars, gateVars, resolveVars, limVars, toolVars>>

\* another status returning None at once
AfterOtherGiveUp == cpc' = "done" /\ UNCHANGED attempt
\* lines 83-88: `continue`, or on the last iteration the loop runs out
AfterOther == Continue

\* an iteration that gets any other status or a RequestException (r is
\* None): sleep 0.3 and continue, or give up on the last iteration
AttemptOther ==
    /\ cpc = "loop"
    /\ \E t \in RequestTimes :
          elapsed' = IF attempt < Tries - 1 THEN Later(t, ShortSleepMs) ELSE t
    /\ call' = [Waited(call) EXCEPT !.other = TRUE, !.after = "other",
                                    !.hint = None,
                                    !.paused = IF attempt < Tries - 1
                                               THEN ShortSleepMs ELSE 0]
    /\ AfterOther
    /\ UNCHANGED <<dynamic_interval, storeVars, orchVars, gateVars, resolveVars, limVars, toolVars>>

\* the caller has the result; the client is free for the next call
Return ==
    /\ cpc = "done"
    /\ cpc' = "idle"
    /\ UNCHANGED <<dynamic_interval, elapsed, attempt, call,
                   storeVars, orchVars, gateVars, resolveVars, limVars, toolVars>>

\* what _retry_get returned, as search_authors, search_papers and
\* fetch_author_papers see it
Returned(c, data) ==
    IF c.result = "ok" THEN [ok |-> TRUE, data |-> data] ELSE FailedResponse

\* search_authors / search_papers: [] when r is None, else data
search_authors(resp) == IF ~resp.ok THEN <<>> ELSE resp.data

NextClient == CallGet \/ Attempt200 \/ Attempt429 \/ Attempt5xx
              \/ AttemptOther \/ Return

SpecClient == InitClient /\ [][NextClient]_vars

\* ------------------------------------ SpecGate: workers in RateLimiter.wait
InitGate ==
    StoreIdle /\ OrchIdle /\ ClientIdle /\ GateIdle /\ ResolveIdle /\ LimIdle /\ ToolIdle

\* _download_one calls limiter.wait(): now = time.time(),
\* delta = now - self.last, and the end of the sleep is decided
GateRead(t) ==
    /\ tpc[t] \in {"idle", "released"}
    /\ wake' = [wake EXCEPT ![t] = now + WaitSleep(now - last, dynamic_interval)]
    /\ tpc' = [tpc EXCEPT ![t] = "sleeping"]
    /\ UNCHANGED <<now, last, released, storeVars, orchVars, clientVars, resolveVars, limVars, toolVars>>

\* the sleep (if any) is over: self.last = time.time(), and wait returns
GateStamp(t) ==
    /\ tpc[t] = "sleeping" /\ now >= wake[t]
    /\ last' = now
    /\ released' = [released EXCEPT ![t] = now]
    /\ tpc' = [tpc EXCEPT ![t] = "released"]
    /\ UNCHANGED <<now, wake, storeVars, orchVars, clientVars, resolveVars, limVars, toolVars>>

\* time passes
Tick ==
    /\ now + TickMs <= MaxTime
    /\ now' = now + TickMs
    /\ UNCHANGED <<last, tpc, wake, released, storeVars, orchVars, clientVars, resolveVars, limVars, toolVars>>

NextGate == (\E t \in Threads : GateRead(t) \/ GateStamp(t)) \/ Tick

SpecGate == InitGate /\ [][NextGate]_vars

\* ------------------------- SpecLimiter: one RateLimiter, any parameters
\* min_interval and max_interval a limiter is constructed with, ms (0.8 and
\* 2 are the defaults, 1.25 is config.MIN_INTERVAL)
IntervalChoices == {0, 800, 1250, 1500, 2000}

\* RateLimiter.__init__ with min_interval <= max_interval
InitLimiter ==
    /\ min_interval \in IntervalChoices /\ max_interval \in IntervalChoices
    /\ min_interval <= max_interval
    /\ dynamic_interval = min_interval
    /\ elapsed = MaxInterval /\ cpc = "idle" /\ attempt = 0 /\ call = NoCall
    /\ StoreIdle /\ OrchIdle /\ GateIdle /\ ResolveIdle /\ ToolIdle

LimBackoff ==
    /\ dynamic_interval' = backoff(dynamic_interval)
    /\ UNCHANGED <<elapsed, cpc, attempt, call, storeVars, orchVars, gateVars,
                   resolveVars, limVars, toolVars>>

LimRelax ==
    /\ dynamic_interval' = relax(dynamic_interval)
    /\ UNCHANGED <<elapsed, cpc, attempt, call, storeVars, orchVars, gateVars,
                   resolveVars, limVars, toolVars>>

LimReset ==
    /\ dynamic_interval' = reset
    /\ UNCHANGED <<elapsed, cpc, attempt, call, storeVars, orchVars, gateVars,
                   resolveVars, limVars, toolVars>>

NextLimiter == LimBackoff \/ LimRelax \/ LimReset

SpecLimiter == InitLimiter /\ [][NextLimiter]_vars

\* =============================== modules/scrapers.py: _extract_paper_title
\* Citations are texts over ASCII letters, digits, the space and the
\* punctuation below, and four characters outside ASCII: "nbsp" (U+00A0),
\* "ldq" and "rdq" (U+201C, U+201D), "ndash" (U+2013).
UpperLetters == {"A","B","C","D","E","F","G","H","I","J","K","L","M",
                 "N","O","P","Q","R","S","T","U","V","W","X","Y","Z"}
LowerLetters == {"a","b","c","d","e","f","g","h","i","j","k","l","m",
                 "n","o","p","q","r","s","t","u","v","w","x","y","z"}
Letters == UpperLetters \cup LowerLetters
Digits == {"0","1","2","3","4","5","6","7","8","9"}
AlNum == Letters \cup Digits
\* \w and \s of Python's re on str
WordChars == AlNum \cup {"_"}
Spaces == {" ", "nbsp"}

\* ------------------------------------------------- Python's re, as used
\* The patterns: one character of a set or outside it, a run x+ / x* / x+?
\* of such characters, a sequence, an alternation, a repeated group, \b, ^,
\* $ and a lookahead.
One(cs) == [t |-> "set", cs |-> cs, in |-> TRUE]
Run(cs, min) == [t |-> "run", cs |-> cs, in |-> TRUE, min |-> min, lazy |-> FALSE]
RunNot(cs, min) == [t |-> "run", cs |-> cs, in |-> FALSE, min |-> min, lazy |-> FALSE]
LazyRunNot(cs, min) == [t |-> "run", cs |-> cs, in |-> FALSE, min |-> min, lazy |-> TRUE]
Cat(xs) == [t |-> "seq", xs |-> xs]
Alt(xs) == [t |-> "alt", xs |-> xs]
Rep(x, min, max) == [t |-> "rep", x |-> x, min |-> min, max |-> max]
Opt(x) == Rep(x, 0, 1)
Lit(str) == [t |-> "seq", xs |-> [k \in DOMAIN str |-> One({str[k]})]]
WordEdge == [t |-> "wb"]
AtStart == [t |-> "bol"]
AtEnd == [t |-> "eol"]
Ahead(x) == [t |-> "ahead", x |-> x]

\* the lists of a list, one after the other
RECURSIVE FlatFrom(_, _)
FlatFrom(ss, k) == IF k > Len(ss) THEN <<>> ELSE ss[k] \o FlatFrom(ss, k + 1)
Flat(ss) == Strict(LAMBDA v : FlatFrom(v, 1), ss)

IsWordAt(s, k) == k >= 1 /\ k <= Len(s) /\ s[k] \in WordChars

\* how many characters from position i on are in (or outside) the set
RunLen(n, s, i) ==
    CHOOSE l \in 0..(Len(s) - i) :
        /\ \A k \in 1..l : (s[i + k] \in n.cs) = n.in
        /\ l = Len(s) - i \/ (s[i + l + 1] \in n.cs) # n.in

RECURSIVE RxEnds(_, _, _), RxSeq(_, _, _, _), RxRep(_, _, _, _)
\* the positions where a match of n that starts after i characters of s can
\* end, in the order the backtracking matcher tries them
RxEnds(n, s, i) ==
    CASE n.t = "set" ->
            IF i < Len(s) /\ ((s[i + 1] \in n.cs) = n.in) THEN <<i + 1>> ELSE <<>>
      [] n.t = "run" ->
            Strict(LAMBDA l :
                       IF n.lazy THEN [k \in 1..(l - n.min + 1) |-> i + n.min + k - 1]
                       ELSE [k \in 1..(l - n.min + 1) |-> i + l - k + 1],
                   RunLen(n, s, i))
      [] n.t = "seq" -> RxSeq(n.xs, 1, s, <<i>>)
      [] n.t = "alt" -> Flat([k \in DOMAIN n.xs |-> RxEnds(n.xs[k], s, i)])
      [] n.t = "rep" -> RxRep(n, s, i, 0)
      [] n.t = "wb" -> IF IsWordAt(s, i) # IsWordAt(s, i + 1) THEN <<i>> ELSE <<>>
      [] n.t = "bol" -> IF i = 0 THEN <<i>> ELSE <<>>
      [] n.t = "eol" -> IF i = Len(s) THEN <<i>> ELSE <<>>
      [] n.t = "ahead" -> IF RxEnds(n.x, s, i) # <<>> THEN <<i>> ELSE <<>>
RxSeq(xs, k, s, ends) ==
    IF k > Len(xs) \/ ends = <<>> THEN ends
    ELSE Strict(LAMBDA next : RxSeq(xs, k + 1, s, next),
                Flat([e \in DOMAIN ends |-> RxEnds(xs[k], s, ends[e])]))
RxRep(n, s, i, cnt) ==
    LET more == IF cnt = n.max THEN <<>>
                ELSE Strict(LAMBDA once :
                                Flat([k \in DOMAIN once |-> RxRep(n, s, once[k], cnt + 1)]),
                            SelectSeq(RxEnds(n.x, s, i), LAMBDA e : e > i))
    IN  IF cnt >= n.min THEN Append(more, i) ELSE more

NoMatch == [found |-> FALSE, start |-> 0, end |-> 0]
\* the least number of a set that is not empty
Least(S) == CHOOSE k \in S : \A j \in S : k <= j
\* re.search(n, s), looking from position from on: the leftmost match
RxSearchIn(n, v, from) ==
    Strict(LAMBDA starts :
               IF starts = {} THEN NoMatch
               ELSE Strict(LAMBDA k : [found |-> TRUE, start |-> k, end |-> RxEnds(n, v, k)[1]],
                           Least(starts)),
           {k \in from..Len(v) : RxEnds(n, v, k) # <<>>})
RxSearch(n, s, from) == Strict(LAMBDA v : RxSearchIn(n, v, from), s)
RxFound(n, s) == RxSearch(n, s, 0).found
\* re.fullmatch(n, s)
RxFullMatch(n, s) ==
    Strict(LAMBDA v : Strict(LAMBDA whole : RxEnds(whole, v, 0) # <<>>, Cat(<<n, AtEnd>>)), s)

\* s[k:]
From(s, k) == SubSeq(s, k + 1, Len(s))
\* re.sub(n, repl, s) for a pattern that matches no empty text
RECURSIVE RxSub(_, _, _)
RxSub(n, repl, s) ==
    Strict(LAMBDA v :
        Strict(LAMBDA m :
                   IF ~m.found THEN v
                   ELSE SubSeq(v, 1, m.start) \o repl \o RxSub(n, repl, From(v, m.end)),
               RxSearchIn(n, v, 0)), s)
\* re.split(n, s) for a pattern that matches no empty text
RECURSIVE RxSplit(_, _)
RxSplit(n, s) ==
    Strict(LAMBDA v :
        Strict(LAMBDA m :
                   IF ~m.found THEN <<v>>
                   ELSE <<SubSeq(v, 1, m.start)>> \o RxSplit(n, From(v, m.end)),
               RxSearchIn(n, v, 0)), s)
\* re.split(n, s, maxsplit=1)[0]
RxSplitHead(n, s) ==
    Strict(LAMBDA v :
        Strict(LAMBDA m : IF m.found THEN SubSeq(v, 1, m.start) ELSE v,
               RxSearchIn(n, v, 0)), s)
\* s.strip(chars)
Stripped(s, chars) == Strict(LAMBDA v : Strip(v, chars), s)
\* s.split()
Words(s) == Strict(LAMBDA v : Runs(v, Spaces), s)

\* str.lower()
UpperSeq == <<"A","B","C","D","E","F","G","H","I","J","K","L","M",
              "N","O","P","Q","R","S","T","U","V","W","X","Y","Z">>
LowerSeq == <<"a","b","c","d","e","f","g","h","i","j","k","l","m",
              "n","o","p","q","r","s","t","u","v","w","x","y","z">>
LowerText(s) ==
    Strict(LAMBDA v :
        [i \in DOMAIN v |->
            IF v[i] \in UpperLetters
            THEN LowerSeq[CHOOSE k \in DOMAIN UpperSeq : UpperSeq[k] = v[i]]
            ELSE v[i]], s)
\* s.count(c)
CountOf(s, c) == Strict(LAMBDA v : Cardinality({i \in DOMAIN v : v[i] = c}), s)

\* ------------------------------------------------------------ clean_text
\* line 163, html.unescape: of the entities only &quot; occurs
QuotEntity == Lit(<<"&","q","u","o","t",";">>)
Unescaped(s) == RxSub(QuotEntity, <<"\"">>, s)
\* lines 164-166: NFKC turns U+00A0 into a space; the curly quotes become
\* '"' and the dashes '-'
Normalized(s) ==
    Strict(LAMBDA v :
        [i \in DOMAIN v |->
            CASE v[i] = "nbsp" -> " "
              [] v[i] \in {"ldq", "rdq"} -> "\""
              [] v[i] = "ndash" -> "-"
              [] OTHER -> v[i]], s)
\* \s+
WhiteSpace == Run(Spaces, 1)
\* lines 168-169: [\s\-,;:...]
EdgeChars == {" ", "nbsp", "-", ",", ";", ":", "ldq", "rdq"}
\* lines 167-169: the white space is collapsed and the ends are stripped;
\* lines 170-180 remove mis-decoded bytes, which these texts do not hold
clean_text(s) ==
    Stripped(Stripped(RxSub(WhiteSpace, <<" ">>, Normalized(Unescaped(s))), Spaces),
             EdgeChars)

\* line 186
LeadingPunct == {" ", "nbsp", "-", "ndash", ":", ".", ";", ",", ")", "]", "(", "[", "{"}
strip_leading_punct(s) ==
    Strict(LAMBDA v :
        IF \A i \in DOMAIN v : v[i] \in LeadingPunct THEN <<>>
        ELSE From(v, (CHOOSE i \in DOMAIN v :
                         v[i] \notin LeadingPunct
                         /\ \A j \in 1..(i - 1) : v[j] \in LeadingPunct) - 1), s)

\* re.findall(r"[A-Za-z0-9]+", s)
Tokens(s) ==
    Strict(LAMBDA v : Strict(LAMBDA others : Runs(v, others), {v[i] : i \in DOMAIN v} \ AlNum), s)
\* line 190
token_count(s) == Len(Tokens(s))

\* ------------------------------------------- looks_like_author_fragment
\* [A-Z][A-Za-z\-']+
SurnameTok == Cat(<<One(UpperLetters), Run(Letters \cup {"-", "'"}, 1)>>)
\* line 204: [^\s,]+
NextTok == RunNot(Spaces \cup {","}, 1)
\* line 204, up to the second group
SurnameComma ==
    Cat(<<AtStart, SurnameTok, Rep(Cat(<<Run(Spaces, 1), SurnameTok>>), 0, -1),
          Run(Spaces, 0), Lit(<<",">>), Run(Spaces, 0), Ahead(NextTok)>>)
\* line 209: [A-Z]\.?
Initial == Cat(<<One(UpperLetters), Opt(Lit(<<".">>))>>)
\* line 225
EndsWithAnd ==
    Cat(<<WordEdge, Lit(<<"a","n","d">>), Run(Spaces, 1), One(UpperLetters),
          Alt(<<Cat(<<Run(LowerLetters, 1), Opt(Lit(<<".">>))>>),
                Opt(Cat(<<Run(Spaces, 1), One(UpperLetters), Opt(Lit(<<".">>))>>))>>),
          AtEnd>>)
\* lines 204-210: rule 1, on the normalized text
SurnameThenShort(s_n) ==
    Strict(LAMBDA m :
        m # <<>> /\
        Strict(LAMBDA next_tok : RxFullMatch(Initial, next_tok) \/ Len(next_tok) <= 3,
               SubSeq(s_n, m[1] + 1, m[1] + RunLen(NextTok, s_n, m[1]))),
        RxEnds(SurnameComma, s_n, 0))
\* lines 215-222: rules 2 and 3, on the tokens
ShortTokens(s_n, tokens) ==
    LET short_tokens == {k \in 1..Min(6, Len(tokens)) : Len(tokens[k]) <= 3}
    IN  \/ /\ CountOf(s_n, ",") >= 2
           /\ \A k \in 1..Min(4, Len(tokens)) : Len(tokens[k]) <= 3
        \/ Cardinality(short_tokens) >= Max(2, Min(4, Len(tokens)))
looks_like_author_fragment(s) ==
    Strict(LAMBDA v :
        IF v = <<>> THEN FALSE
        ELSE Strict(LAMBDA s_n :
                 \/ SurnameThenShort(s_n)
                 \/ Strict(LAMBDA tokens : ShortTokens(s_n, tokens), Tokens(s_n))
                 \/ RxFound(EndsWithAnd, s_n),
                 Stripped(RxSub(WhiteSpace, <<" ">>, v), Spaces)), s)

\* ---------------------------------------------------- is_title_candidate
\* \b(19|20)\d{2}\b
YearTok ==
    Cat(<<WordEdge, Alt(<<Lit(<<"1","9">>), Lit(<<"2","0">>)>>), One(Digits), One(Digits),
          WordEdge>>)
\* \b\d{4}\b
FourDigits == Cat(<<WordEdge, One(Digits), One(Digits), One(Digits), One(Digits), WordEdge>>)
\* line 252, on the lower-cased text (re.I)
VenueWord ==
    Alt(<<Lit(<<"d","o","i",".","o","r","g">>),
          Cat(<<Lit(<<"h","t","t","p">>), Opt(Lit(<<"s">>)), Lit(<<":","/","/">>)>>),
          Lit(<<"j","o","u","r","n","a","l">>),
          Lit(<<"p","r","o","c","e","e","d","i","n","g","s">>),
          Lit(<<"v","o","l",".">>), Lit(<<"p","p",".">>), FourDigits>>)
\* lines 256 and 331, on the lower-cased text (re.I)
KickerWord ==
    Cat(<<WordEdge,
          Alt(<<Lit(<<"a","r","x","i","v">>), Lit(<<"p","r","e","p","r","i","n","t">>),
                Lit(<<"a","c","c","e","p","t","e","d">>), Lit(<<"i","n"," ","p","r","e","s","s">>),
                Lit(<<"s","u","b","m","i","t","t","e","d">>)>>),
          WordEdge>>)
\* line 260: \(?\d{4}\)?
BareYear ==
    Cat(<<Opt(Lit(<<"(">>)), One(Digits), One(Digits), One(Digits), One(Digits), Opt(Lit(<<")">>))>>)
\* lines 234-263, on the stripped candidate and its words
ValidTitle(cand, words, original, allow_author_like) ==
    /\ Len(cand) >= 6
    /\ words >= 2
    /\ \E i \in DOMAIN cand : cand[i] \in Letters
    /\ allow_author_like \/
          /\ ~looks_like_author_fragment(cand)
          /\ ~(CountOf(cand, ",") >= 3 /\ RxFound(YearTok, original)
                 /\ CountOf(cand, ",") > 1)
          /\ RxFound(VenueWord, LowerText(cand)) =>
                ~(~(\E i \in DOMAIN cand : cand[i] \in LowerLetters) \/ words < 4)
          /\ ~RxFound(KickerWord, LowerText(cand))
    /\ ~RxFullMatch(BareYear, cand)
is_title_candidate(candidate, original, allow_author_like) ==
    Strict(LAMBDA given :
        given # <<>> /\
        Strict(LAMBDA cand :
            Strict(LAMBDA words : ValidTitle(cand, words, original, allow_author_like),
                   Len(Words(cand))),
            Stripped(Stripped(given, Spaces), {"\"", ".", ",", ";", ":"})),
        candidate)
\* ------------------------------------------------------------ the <li>
\* An <li> element: its aria-label (<<>> when it has none), the text before
\* its <em> child, the text of the <em> (<<>> when it has none) and the text
\* after it.
\* li_tag.get_text(" ", strip=True)
get_text(li) ==
    Strict(JoinSpace,
           SelectSeq(<<Stripped(li.before, Spaces), Stripped(li.em, Spaces),
                       Stripped(li.after, Spaces)>>, LAMBDA p : p # <<>>))
\* lines 274-279
RawText(li) == clean_text(IF li.aria # <<>> THEN li.aria ELSE get_text(li))
\* line 283; line 286 leaves a text without markup as it is
Unstarred(raw) == SelectSeq(raw, LAMBDA c : c # "*")

NoTitleFound == [found |-> FALSE, title |-> <<>>]
TitleFound(s) == [found |-> TRUE, title |-> s]

\* sorted(items, key=...) for the keys given, largest first; equal keys keep
\* their order
SortedDesc(items, keys) ==
    LET rank(i) == Cardinality({j \in DOMAIN items :
                        keys[j] > keys[i] \/ (keys[j] = keys[i] /\ j < i)}) + 1
    IN  [k \in DOMAIN items |-> items[CHOOSE i \in DOMAIN items : rank(i) = k]]
\* the first item of a list that passes, as the result of a stage
FirstThat(items, Ok(_)) ==
    Strict(LAMBDA passing :
               IF passing = {} THEN NoTitleFound ELSE TitleFound(items[Least(passing)]),
           {k \in DOMAIN items : Ok(items[k])})

\* \bword\b and \bword\.?\b
Word(str) == Cat(<<WordEdge, Lit(str), WordEdge>>)
WordDot(str) == Cat(<<WordEdge, Lit(str), Opt(Lit(<<".">>)), WordEdge>>)

\* --------------------------------------------------------------- stage 1
\* ["“”“”]|&quot;
QuoteMark == Alt(<<One({"\"", "ldq", "rdq"}), Lit(<<"&","q","u","o","t",";">>)>>)
\* the matches of line 290 from position from on: for each the start and
\* the end of the group and the end of the match, the first the matcher
\* finds
QuoteOpen == Cat(<<QuoteMark, Run(Spaces, 0)>>)
QuoteInner == LazyRunNot({"\""}, 1)
QuoteClose == Cat(<<Run(Spaces, 0), Ahead(QuoteMark)>>)
QuotedAt(s, from) ==
    LET Closed(a) ==
            Strict(LAMBDA inner :
                Flat([b \in DOMAIN inner |->
                        Strict(LAMBDA e : [c \in DOMAIN e |-> <<a, inner[b], e[c]>>],
                               RxEnds(QuoteClose, s, inner[b]))]),
                RxEnds(QuoteInner, s, a))
    IN  Strict(LAMBDA opened : Flat([a \in DOMAIN opened |-> Closed(opened[a])]),
               RxEnds(QuoteOpen, s, from))
\* re.findall of line 289, from position from on
RECURSIVE QuotedChunks(_, _)
QuotedChunks(s, from) ==
    Strict(LAMBDA starts :
        IF starts = {} THEN <<>>
        ELSE Strict(LAMBDA m : <<SubSeq(s, m[1] + 1, m[2])>> \o QuotedChunks(s, m[3]),
                    QuotedAt(s, Least(starts))[1]),
        {k \in from..Len(s) : QuotedAt(s, k) # <<>>})
\* line 300
Stage1Kicker ==
    Alt(<<Word(<<"J","o","u","r","n","a","l">>),
          Word(<<"P","r","o","c","e","e","d","i","n","g","s">>),
          Word(<<"I","n","t","e","r","n","a","t","i","o","n","a","l">>),
          WordDot(<<"V","o","l">>), WordDot(<<"p","p">>),
          Word(<<"d","o","i",".","o","r","g">>), KickerWord, FourDigits>>)
\* lines 289-309
\* lines 294-303: without a quoted chunk, the text after the first quote
\* mark up to a venue word
AfterQuoteMark(raw) ==
    Strict(LAMBDA qstart :
               IF qstart.found
               THEN <<Stripped(RxSplitHead(Stage1Kicker, From(raw, qstart.end)), Spaces)>>
               ELSE <<>>,
           RxSearchIn(QuoteMark, raw, 0))
\* lines 289-309
Stage1(raw, li) ==
    Strict(LAMBDA groups :
        Strict(LAMBDA quoted_matches :
            Strict(LAMBDA sorted :
                FirstThat(sorted, LAMBDA q :
                    token_count(q) >= 2 /\ is_title_candidate(q, raw, TRUE)),
                Strict(LAMBDA keys :
                           Strict(LAMBDA inOrder :
                                      [k \in DOMAIN inOrder |-> clean_text(inOrder[k])],
                                  SortedDesc(quoted_matches, keys)),
                       [k \in DOMAIN quoted_matches |-> token_count(quoted_matches[k])])),
            IF groups # <<>> THEN [k \in DOMAIN groups |-> clean_text(groups[k])]
            ELSE AfterQuoteMark(raw)),
        QuotedChunks(raw, 0))

\* what stages 2 to 6 ask of the text they return
AcceptLikeQuoted(cand, raw) == is_title_candidate(cand, raw, TRUE)
AcceptFallback(cand, raw) ==
    ~looks_like_author_fragment(cand) /\ is_title_candidate(cand, raw, FALSE)

\* --------------------------------------------------------------- stage 2
\* lines 322-323
Stage2Kicker ==
    Alt(<<Word(<<"J","o","u","r","n","a","l">>), WordDot(<<"J">>),
          Word(<<"P","r","o","c","e","e","d","i","n","g","s">>), WordDot(<<"P","r","o","c">>),
          Word(<<"I","n","t","e","r","n","a","t","i","o","n","a","l">>),
          Cat(<<WordEdge, Lit(<<"I","n",":">>)>>),
          WordDot(<<"V","o","l">>), WordDot(<<"p","p">>),
          Word(<<"a","r","X","i","v">>), Word(<<"p","r","e","p","r","i","n","t">>),
          Word(<<"a","c","c","e","p","t","e","d">>), Word(<<"i","n"," ","p","r","e","s","s">>),
          Word(<<"s","u","b","m","i","t","t","e","d">>)>>)
\* lines 313-334
Stage2(raw, li) ==
    Strict(LAMBDA ym :
        IF ~ym.found THEN NoTitleFound
        ELSE Strict(LAMBDA after_year :
                 IF ~RxFound(KickerWord, LowerText(after_year))
                    /\ AcceptFallback(after_year, raw)
                 THEN TitleFound(after_year) ELSE NoTitleFound,
                 clean_text(RxSplitHead(Stage2Kicker,
                     strip_leading_punct(Stripped(From(raw, ym.end), Spaces))))),
        RxSearchIn(YearTok, raw, 0))

\* --------------------------------------------------------------- stage 3
\* [A-Z][a-zA-Z\-\.]+
NameTok == Cat(<<One(UpperLetters), Run(Letters \cup {"-", "."}, 1)>>)
\* line 341
AuthorBlock ==
    Cat(<<AtStart,
          Rep(Cat(<<NameTok, Opt(Cat(<<Run(Spaces, 1), NameTok>>)),
                    Alt(<<Lit(<<",">>),
                          Cat(<<Opt(Lit(<<",">>)), Run(Spaces, 1), Lit(<<"a","n","d">>)>>),
                          Cat(<<Opt(Lit(<<",">>)), Run(Spaces, 1), Lit(<<"&">>)>>)>>),
                    Run(Spaces, 0)>>), 1, -1),
          NameTok, One({".", ","}), Run(Spaces, 1)>>)
\* line 348
Stage3Kicker ==
    Cat(<<Opt(Lit(<<",">>)), Run(Spaces, 0),
          Alt(<<Lit(<<"J",".">>), Lit(<<"J","o","u","r","n","a","l">>),
                Lit(<<"P","r","o","c",".">>), Lit(<<"P","r","o","c","e","e","d","i","n","g","s">>),
                Lit(<<"I","n","t",".">>),
                Lit(<<"I","n","t","e","r","n","a","t","i","o","n","a","l">>),
                Lit(<<"V","o","l",".">>), Lit(<<"p","p",".">>),
                Cat(<<One(Digits), One(Digits), One(Digits), One(Digits)>>),
                Lit(<<"a","c","c","e","p","t","e","d">>), Lit(<<"i","n"," ","p","r","e","s","s">>),
                Lit(<<"s","u","b","m","i","t","t","e","d">>)>>)>>)
\* lines 340-355
Stage3(raw, li) ==
    Strict(LAMBDA author_match :
        IF author_match = <<>> THEN NoTitleFound
        ELSE Strict(LAMBDA seg :
                 IF AcceptFallback(seg, raw) THEN TitleFound(seg) ELSE NoTitleFound,
                 clean_text(RxSplitHead(Stage3Kicker,
                     Stripped(From(raw, author_match[1]), Spaces)))),
        RxEnds(AuthorBlock, raw, 0))

\* --------------------------------------------------------------- stage 4
\* line 379: ^(?:[A-Z][a-z]+(?:,|\s))*\s*
LeadingNames ==
    Cat(<<AtStart,
          Rep(Cat(<<One(UpperLetters), Run(LowerLetters, 1), One(Spaces \cup {","})>>), 0, -1),
          Run(Spaces, 0)>>)
\* line 376
MaxDotOffset == 80
\* lines 359-385
\* s.find(".")
FindDot(s) ==
    IF \E i \in DOMAIN s : s[i] = "." THEN Least({i \in DOMAIN s : s[i] = "."}) - 1 ELSE -1
\* lines 371-379: the text before the <em> after its year, else after its
\* first period, else without its leading capitalized words
AfterNames(before_em) ==
    Strict(LAMBDA ym2 :
        IF ym2.found THEN From(before_em, ym2.end)
        ELSE Strict(LAMBDA p :
                 IF 0 < p /\ p < MaxDotOffset THEN From(before_em, p + 1)
                 ELSE From(before_em, RxEnds(LeadingNames, before_em, 0)[1]),
                 FindDot(before_em)),
        RxSearchIn(YearTok, before_em, 0))
\* lines 359-385
Stage4(raw, li) ==
    IF li.em = <<>> THEN NoTitleFound
    ELSE Strict(LAMBDA before_em :
             Strict(LAMBDA cand :
                        IF AcceptFallback(cand, raw) THEN TitleFound(cand) ELSE NoTitleFound,
                    clean_text(Stripped(AfterNames(before_em), Spaces))),
             clean_text(li.before))

\* line 387
TrailingAnd ==
    Cat(<<Alt(<<Cat(<<Lit(<<",">>), Run(Spaces, 0), Lit(<<"a","n","d">>)>>),
                Lit(<<"a","n","d">>)>>),
          Run(Spaces, 1), One(UpperLetters), Opt(Lit(<<".">>)), Opt(One(Letters)), AtEnd>>)
Untrailed(raw) == RxSub(TrailingAnd, <<>>, raw)

\* --------------------------------------------------------------- stage 5
\* lines 391-406
\* line 391: \.\s+|\;\s+
SentenceEnd == Alt(<<Cat(<<Lit(<<".">>), Run(Spaces, 1)>>), Cat(<<Lit(<<";">>), Run(Spaces, 1)>>)>>)
\* line 404: max(candidates, key=lambda s: (len(s.split()), len(s)))
LongestOf(candidates) ==
    LET Less(a, b) == a[1] < b[1] \/ (a[1] = b[1] /\ a[2] < b[2])
    IN  Strict(LAMBDA keys :
            Strict(LAMBDA best :
                       IF best = {} THEN NoTitleFound ELSE TitleFound(candidates[Least(best)]),
                   {i \in DOMAIN keys : \A k \in DOMAIN keys : ~Less(keys[i], keys[k])}),
            [k \in DOMAIN candidates |-> <<Len(Words(candidates[k])), Len(candidates[k])>>])
\* lines 391-406
Stage5(raw, li) ==
    Strict(LAMBDA pieces :
        Strict(LAMBDA cleaned :
            Strict(LongestOf,
                   SelectSeq(cleaned, LAMBDA p_clean :
                       p_clean # <<>> /\ AcceptFallback(p_clean, raw))),
            [k \in DOMAIN pieces |-> clean_text(pieces[k])]),
        RxSplit(SentenceEnd, raw))

\* --------------------------------------------------------------- stage 6
\* lines 409-415
\* line 409: \s*[,:]\s*
SegmentSep == Cat(<<Run(Spaces, 0), One({",", ":"}), Run(Spaces, 0)>>)
\* lines 409-415
Stage6(raw, li) ==
    Strict(LAMBDA pieces :
        Strict(LAMBDA colon_segments :
            Strict(LAMBDA sorted :
                FirstThat(sorted, LAMBDA seg :
                    /\ (\E i \in DOMAIN seg : seg[i] \in {":", "-"}) \/ Len(Words(seg)) >= 4
                    /\ AcceptFallback(seg, raw)),
                Strict(LAMBDA keys : SortedDesc(colon_segments, keys),
                       [k \in DOMAIN colon_segments |-> Len(colon_segments[k])])),
            [k \in DOMAIN pieces |-> clean_text(pieces[k])]),
        SelectSeq(RxSplit(SegmentSep, raw), LAMBDA s : s # <<>>))

\* the text a stage works on: line 283 for stages 1 to 4, line 387 too for
\* stages 5 and 6
RawFor(k, li) ==
    IF k <= 4 THEN Unstarred(RawText(li)) ELSE Untrailed(Unstarred(RawText(li)))
\* what stage k alone finds
StageTitle(k, raw, li) ==
    Strict(LAMBDA text :
        Strict(LAMBDA tag :
            CASE k = 1 -> Stage1(text, tag)
              [] k = 2 -> Stage2(text, tag)
              [] k = 3 -> Stage3(text, tag)
              [] k = 4 -> Stage4(text, tag)
              [] k = 5 -> Stage5(text, tag)
              [] k = 6 -> Stage6(text, tag), li), raw)
\* ------------------------------------------------- the citations tried
\* A citation is put together from an author list, a year, a title, a venue
\* (as text, or as the <em> child of the <li>) and a closing year; each part
\* may be missing.
AuthorParts ==
    << <<"A","u","t","h","o","r",","," ","A",".">>,
       <<"S","m","i","t","h"," ","J",","," ","D","o","e"," ","R">>,
       <<"S","m","i","t","h",","," ","J",".",","," ","D","o","e",","," ","R",".",",",
         " ","a","n","d"," ","L","e","e",","," ","K",".">>,
       <<"S","m","i","t","h",","," ","J","."," ","a","n","d"," ","D","o","e",","," ","R",".">>,
       <<>> >>
YearParts == << <<>>, <<" ","2","0","1","9">> >>
TitleParts ==
    << <<>>,
       <<" ","\"","A","n"," ","E","x","a","m","p","l","e"," ","T","i","t","l","e",".","\"">>,
       <<" ","ldq","A"," ","S","t","u","d","y"," ","o","f"," ","W","i","d","g","e","t","s","rdq">>,
       <<" ","A"," ","S","t","u","d","y"," ","o","f"," ","W","i","d","g","e","t","s">>,
       <<" ","W","i","d","g","e","t"," ","D","e","s","i","g","n","nbsp","ndash"," ","a"," ",
         "R","e","v","i","e","w",":"," ","P","a","r","t"," ","1",".">> >>
VenueParts ==
    << <<>>,
       <<" ","J","o","u","r","n","a","l"," ","o","f"," ","T","e","s","t","s">>,
       <<" ","J","o","u","r","n","a","l"," ","o","f"," ","W","i","d","g","e","t","s">> >>
EmVenue == <<"J","o","u","r","n","a","l"," ","o","f"," ","W","i","d","g","e","t","s">>
ClosingParts == << <<>>, <<","," ","2","0","2","0",".">> >>
\* the venue choice that stands for the <em> child
InEm == Len(VenueParts) + 1
CitationIds ==
    (DOMAIN AuthorParts) \X (DOMAIN YearParts) \X (DOMAIN TitleParts)
        \X (1..InEm) \X (DOMAIN ClosingParts)
LiTag(ix) ==
    LET head == AuthorParts[ix[1]] \o YearParts[ix[2]] \o TitleParts[ix[3]]
    IN  IF ix[4] = InEm
        THEN [aria |-> <<>>, before |-> head, em |-> EmVenue, after |-> ClosingParts[ix[5]]]
        ELSE [aria |-> <<>>, before |-> head \o VenueParts[ix[4]] \o ClosingParts[ix[5]],
              em |-> <<>>, after |-> <<>>]

\* ------------------------------------ SpecExtract: _extract_paper_title
InitExtract ==
    StoreIdle /\ OrchIdle /\ ClientIdle /\ GateIdle /\ ResolveIdle
    /\ LimIdle /\ ToolIdle

\* lines 274-286: the text of the <li>; None when it is empty
StartExtract ==
    /\ extr.pc = "idle"
    /\ \E ix \in CitationIds :
          extr' = Strict(LAMBDA raw :
                      IF raw = <<>> THEN [NoExt EXCEPT !.pc = "done", !.li = ix]
                      ELSE [NoExt EXCEPT !.pc = "try", !.li = ix, !.stage = 1,
                                         !.raw = Unstarred(raw)],
                      RawText(LiTag(ix)))
    /\ UNCHANGED <<patch, storeVars, orchVars, clientVars, gateVars, resolveVars, limVars>>

\* stage k found a title and a later stage's title is kept over it
LastStageWins(e, k, r) ==
    LET kept == IF r.found THEN [e EXCEPT !.by = k, !.title = r.title] ELSE e
    IN  IF k = 6 THEN [kept EXCEPT !.pc = "done"]
        ELSE [kept EXCEPT !.stage = k + 1, !.raw = IF k = 4 THEN Untrailed(@) ELSE @]
\* the returns of lines 309, 334, 355, 383, 406, 415 and 417: the title of
\* stage k is returned; without one the next stage is tried (line 387
\* before stage 5) and after stage 6 None is returned
ReturnOrGoOn(e, k, r) ==
    IF r.found THEN [e EXCEPT !.pc = "done", !.by = k, !.title = r.title]
    ELSE IF k = 6 THEN [e EXCEPT !.pc = "done"]
    ELSE [e EXCEPT !.stage = k + 1, !.raw = IF k = 4 THEN Untrailed(@) ELSE @]

TryStage(k) ==
    /\ extr.pc = "try" /\ extr.stage = k
    /\ extr' = Strict(LAMBDA r : ReturnOrGoOn(extr, k, r),
                      StageTitle(k, extr.raw, LiTag(extr.li)))
    /\ UNCHANGED <<patch, storeVars, orchVars, clientVars, gateVars, resolveVars, limVars>>

QuotedStage == TryStage(1)
YearStage == TryStage(2)
AuthorBlockStage == TryStage(3)
MarkupStage == TryStage(4)
SentenceStage == TryStage(5)
SegmentStage == TryStage(6)

NextExtract ==
    StartExtract \/ QuotedStage \/ YearStage \/ AuthorBlockStage \/ MarkupStage
    \/ SentenceStage \/ SegmentStage

SpecExtract == InitExtract /\ [][NextExtract]_vars

\* ------------------------ SpecPatch: downloader/patch_missing_abstracts.py
\* "AUTH_ERROR_CHECK_KEY"
AuthError == -3
\* what a 200 carries as 'abstract': null or no such key, "", a text of
\* MinAbstractLen characters, a longer text
Abstracts == {None, 0, MinAbstractLen, MinAbstractLen + 1}

InitPatch ==
    StoreIdle /\ OrchIdle /\ ClientIdle /\ GateIdle /\ ResolveIdle
    /\ LimIdle /\ ToolIdle

\* main, lines 40-47: the rows to patch
StartPatch ==
    /\ patch.pc = "idle"
    /\ patch' = [NoPatch EXCEPT !.pc = "row", !.row = 1]
    /\ UNCHANGED <<extr, storeVars, orchVars, clientVars, gateVars, resolveVars, limVars>>

\* lines 51-56: a row with a Semantic Scholar URL calls fetch_abstract_safe
CallFetch ==
    /\ patch.pc = "row" /\ patch.row <= MaxRows
    /\ patch' = [patch EXCEPT !.pc = "request", !.depth = 1, !.requests = 0,
                              !.n429 = 0, !.paused = 0, !.result = None]
    /\ UNCHANGED <<extr, storeVars, orchVars, clientVars, gateVars, resolveVars, limVars>>

\* lines 52-53, 69: a row without such a URL is passed over
SkipRow ==
    /\ patch.pc = "row" /\ patch.row <= MaxRows
    /\ patch' = [patch EXCEPT !.row = @ + 1]
    /\ UNCHANGED <<extr, storeVars, orchVars, clientVars, gateVars, resolveVars, limVars>>

\* the innermost call returns v and every call above returns what it got
FetchReturns(v) ==
    [patch EXCEPT !.pc = "returned", !.requests = @ + 1, !.result = v]

\* lines 24-25: a 200 (a body that is not JSON raises and gives None)
Answer200 ==
    /\ patch.pc = "request"
    /\ \E abstract \in Abstracts : patch' = FetchReturns(abstract)
    /\ UNCHANGED <<extr, storeVars, orchVars, clientVars, gateVars, resolveVars, limVars>>

\* lines 26-27: a 403
Answer403 ==
    /\ patch.pc = "request"
    /\ patch' = FetchReturns(AuthError)
    /\ UNCHANGED <<extr, storeVars, orchVars, clientVars, gateVars, resolveVars, limVars>>

\* lines 32-36: another status, or an exception of requests.get
AnswerElse ==
    /\ patch.pc = "request"
    /\ patch' = FetchReturns(None)
    /\ UNCHANGED <<extr, storeVars, orchVars, clientVars, gateVars, resolveVars, limVars>>

\* the RecursionError of a call too deep leaving fetch_abstract_safe
RecursionEscapes(p) == [p EXCEPT !.pc = "raised"]
\* the call of line 31 stands inside the try: the RecursionError of a call
\* too deep is caught by line 34 and the call returns None
RecursionCaught(p) == [p EXCEPT !.pc = "returned", !.result = None]

\* lines 28-31: a 429: sleep 5 s, then the function calls itself
Answer429 ==
    /\ patch.pc = "request"
    /\ LET slept == [patch EXCEPT !.requests = @ + 1, !.n429 = @ + 1,
                                  !.paused = FetchSleepMs]
       IN  patch' = IF patch.depth < MaxFrames
                    THEN [slept EXCEPT !.depth = @ + 1]
                    ELSE RecursionCaught(slept)
    /\ UNCHANGED <<extr, storeVars, orchVars, clientVars, gateVars, resolveVars, limVars>>

\* main, lines 58-69: the abstract is stored when longer than 30
\* characters; a rejected key ends the loop; then sleep(1.2)
UseAbstract ==
    /\ patch.pc = "returned"
    /\ patch' = IF patch.result > MinAbstractLen
                THEN [patch EXCEPT !.pc = "row", !.row = @ + 1,
                                   !.patched = @ \cup {patch.row}]
                ELSE IF patch.result = AuthError
                THEN [patch EXCEPT !.pc = "saved"]
                ELSE [patch EXCEPT !.pc = "row", !.row = @ + 1]
    /\ UNCHANGED <<extr, storeVars, orchVars, clientVars, gateVars, resolveVars, limVars>>

\* lines 71-73: the rows are done and the CSV is written
SavePatched ==
    /\ patch.pc = "row" /\ patch.row > MaxRows
    /\ patch' = [patch EXCEPT !.pc = "saved"]
    /\ UNCHANGED <<extr, storeVars, orchVars, clientVars, gateVars, resolveVars, limVars>>

NextPatch == StartPatch \/ CallFetch \/ SkipRow \/ Answer200 \/ Answer403
             \/ AnswerElse \/ Answer429 \/ UseAbstract \/ SavePatched

\* the script keeps running and every request ends (timeout=15)
SpecPatch == InitPatch /\ [][NextPatch]_vars /\ WF_vars(NextPatch)

\* ------------------------------- SpecResolve: the resolution of one name
\* the entries of a found paper's authors list: an author id under a display
\* name, an entry without an id, an entry without a name
AuthorEntries ==
    {Listed(a, ApiName(b)) : a \in AuthorIds, b \in AuthorIds}
    \cup {Listed(None, ApiName(1)), Listed(1, 0)}

\* what the paper search answers for one sample paper (limit=1: one paper
\* at most)
SearchOutcomes ==
    {NoTitle, FailedSearch, BadJson, Body(AbsentField), Body(NullField),
     Body(ListField(<<>>)), Found(AbsentField), Found(NullField)}
    \cup {Found(ListField(al)) : al \in SeqsUpTo(AuthorEntries, MaxAuthors)}

\* what the author search answers
CandidateResponses ==
    {FailedSearch, BadJson, Body(AbsentField), Body(NullField)}
    \cup {Body(ListField(cs)) :
            cs \in SeqsUpTo({Listed(a, ApiName(a)) : a \in AuthorIds}, MaxAuthors)}

\* the list search_authors hands to resolve_author_id
Candidates(resp) ==
    IF resp.kind = "ok" /\ resp.data.is = "list" THEN resp.data.items ELSE <<>>

\* the entries of a search outcome that carry a name and an id
ListedBy(outcome) ==
    IF outcome.kind # "ok" \/ outcome.data.is # "list" THEN {}
    ELSE UNION { IF r.authors.is # "list" THEN {}
                 ELSE {r.authors.items[i] : i \in DOMAIN r.authors.items}
                 : r \in {outcome.data.items[j] : j \in DOMAIN outcome.data.items} }

\* the store holds nothing, or one professor under a local name
InitResolve ==
    /\ today = 0
    /\ db \in {EmptyDb}
             \cup {upsert_professor(EmptyDb, a, n, HierUni(n), HierDept(n), <<>>, 0) :
                     a \in AuthorIds, n \in LocalNames}
    /\ OrchIdle /\ ClientIdle /\ GateIdle /\ ResolveIdle /\ LimIdle /\ ToolIdle

\* line 291 is reached for a name
StartResolve ==
    /\ res.pc \in {"idle", "returned", "raised"}
    /\ \E name \in LocalNames :
          res' = [NoRes EXCEPT !.pc = "votes", !.name = name,
                               !.log_before = Len(error_log)]
    /\ UNCHANGED <<error_log, storeVars, orchVars, clientVars, gateVars, limVars, toolVars>>

\* one iteration of `for paper in sample_papers`
SearchTitle ==
    /\ res.pc = "votes" /\ res.k < Min(MaxSample, max_papers)
    /\ \E outcome \in SearchOutcomes :
          LET v == VotePaper(res.hits, res.name, outcome)
              seen == {e \in ListedBy(outcome) : Truthy(e.name) /\ Truthy(e.authorId)}
          IN  res' = [res EXCEPT !.pc = IF v.raised THEN "raised" ELSE "votes",
                                 !.k = @ + 1,
                                 !.hits = v.hits,
                                 !.listed = @ \cup seen]
    /\ UNCHANGED <<error_log, storeVars, orchVars, clientVars, gateVars, limVars, toolVars>>

\* lines 163-169: the sample is exhausted; no hit returns None and line 291
\* goes on to resolve_author_id
ReturnVotes ==
    /\ res.pc = "votes"
    /\ res' = [res EXCEPT !.pc = IF BestId(res.hits) = None THEN "search"
                                 ELSE "returned",
                          !.via_papers = BestId(res.hits),
                          !.author_id = BestId(res.hits)]
    /\ UNCHANGED <<error_log, storeVars, orchVars, clientVars, gateVars, limVars, toolVars>>

\* resolve_author_id: reuse, or the author search and its candidates
ResolveByName ==
    /\ res.pc = "search" /\ Len(error_log) < MaxLog
    /\ \E known \in KnownChoices(db, res.name), resp \in CandidateResponses :
          LET b == resolve_author_id(res.name, known, resp, today)
          IN  /\ res' = [res EXCEPT !.pc = "returned",
                                    !.author_id = b.author_id,
                                    !.candidates = IF known = None
                                                   THEN Candidates(resp) ELSE <<>>,
                                    !.accepted = b.accepted]
              /\ error_log' = error_log \o b.log
    /\ UNCHANGED <<storeVars, orchVars, clientVars, gateVars, limVars, toolVars>>

NextResolve == StartResolve \/ SearchTitle \/ ReturnVotes \/ ResolveByName

SpecResolve == InitResolve /\ [][NextResolve]_vars

\* ===================================================== the catalog store
NoDuplicateIds(authors) ==
    \A i, j \in DOMAIN authors :
        i # j => authors[i].authorId # authors[j].authorId

\* C1: after any sequence of merges from an empty store, no paper's authors
\* list holds two entries with the same external author id.
C1_NoDuplicateAuthors ==
    \A pid \in DOMAIN db.papers : NoDuplicateIds(db.papers[pid].authors)

PaperIdsOfProfessor(d, a) == SeqToSet(d.professors[a].paperIds)

StoreGrows(before, after) ==
    /\ DOMAIN before.papers \subseteq DOMAIN after.papers
    /\ DOMAIN before.professors \subseteq DOMAIN after.professors
    /\ \A a \in DOMAIN before.professors :
          PaperIdsOfProfessor(before, a) \subseteq PaperIdsOfProfessor(after, a)

\* C2: processing a name (whatever its resolution and the outcome of its
\* fetch) keeps every paper id and professor id of the store, and every
\* professor's paperIds afterwards include those before.
C2_StoreMonotonic ==
    [][(pc = "loop" /\ pc' \in {"loop", "save"}) => StoreGrows(db, db')]_vars

\* C3: merging the same response for the same author twice in a row, on the
\* same date, gives the same papers and professors as merging it once.
C3_IdempotentMerge ==
    \A author_id \in AuthorIds, resp \in MergeResponses :
        LET once == MergeFetched(db, author_id, author_id, resp, today)
        IN  MergeFetched(once, author_id, author_id, resp, today) = once

\* a store that already holds papers, and a response with papers and authors
\* whose first merge changes the store and whose second merge changes nothing
C3_Witness ==
    /\ db.papers # <<>>
    /\ \E author_id \in AuthorIds, resp \in MergeResponses :
        LET once == MergeFetched(db, author_id, author_id, resp, today)
        IN  /\ Len(resp.data) = MaxPayload
            /\ resp.data[1].authors # <<>>
            /\ once # db
            /\ MergeFetched(once, author_id, author_id, resp, today) = once

\* response items for a stored paper with each metadata field on its own
\* either null or a value (externalIds: null or a non-empty dict)
FieldItems(pid) ==
    [ paperId : {pid}, title : {None} \cup Vals, year : {None} \cup Vals,
      citationCount : {None} \cup Vals, openAccessPdf : {None} \cup Vals,
      url : {None} \cup Vals, externalIds : {None, 1, 2, 3},
      venue : {None} \cup Vals, publicationTypes : {None} \cup Vals,
      authors : {<<>>} ]

\* null in the response: the stored value stays; a value: it is stored
FieldMerged(raw, before, after) ==
    IF raw = None THEN after = before ELSE after = raw

\* C4: for each of title, year, citations, pdf_url, url, externalIds, venue
\* and types of a stored paper, a null or absent field of the API response
\* leaves the stored value as it is, and a value replaces it.
C4_NullsNeverClobber ==
    \A pid \in DOMAIN db.papers : \A raw \in FieldItems(pid) :
        LET before == db.papers[pid]
            after == MergeFetched(db, 1, 1, [ok |-> TRUE, data |-> <<raw>>],
                                  today).papers[pid]
        IN  /\ FieldMerged(raw.title, before.title, after.title)
            /\ FieldMerged(raw.year, before.year, after.year)
            /\ FieldMerged(raw.citationCount, before.citations, after.citations)
            /\ FieldMerged(raw.openAccessPdf, before.pdf_url, after.pdf_url)
            /\ FieldMerged(raw.url, before.url, after.url)
            /\ FieldMerged(raw.externalIds, before.externalIds, after.externalIds)
            /\ FieldMerged(raw.venue, before.venue, after.venue)
            /\ FieldMerged(raw.publicationTypes, before.types, after.types)

Holds(outer, inner) ==
    /\ DOMAIN inner.papers \subseteq DOMAIN outer.papers
    /\ DOMAIN inner.professors \subseteq DOMAIN outer.professors

\* C5: whenever a run starts (also after a crash, also one in the middle of
\* writing the store file), the store it loads holds everything that was
\* persisted for the names before the crash.
C5_CrashLosesOneNameAtMost ==
    (pc = "loop" /\ run.processed = 0) => Holds(db, fileData)

\* C6: a run that found the store file unreadable at startup processes no
\* name and never overwrites the file.
C6_CorruptStoreAborts ==
    run.startedCorrupt => (run.processed = 0 /\ fileState = "corrupt")

\* ===================================================== the API client
\* C7: one get call issues at most Tries requests, whatever the upstream
\* answers, and a call that never saw a 200 ends after exactly Tries
\* requests with the failure value, which the search and fetch methods
\* turn into an empty list.
C7_BoundedAttempts ==
    /\ call.requests <= Tries
    /\ (cpc = "done" /\ call.result # "ok") =>
          /\ call.requests = Tries
          /\ Returned(call, <<1>>) = FailedResponse
          /\ search_authors(Returned(call, <<1>>)) = <<>>
          /\ fetch_author_papers(Returned(call, <<1>>)) = <<>>

\* a call that used up its budget on 429s, 5xx and other failures
C7_Witness ==
    /\ cpc = "done" /\ call.result = "none" /\ call.requests = Tries
    /\ call.n429 > 0 /\ call.other

\* the upstream answered 429 to the first K >= 1 requests of the call and
\* 200 to the next one
After429sThen200 ==
    cpc = "done" /\ call.result = "ok" /\ call.n429 > 0 /\ ~call.other

\* C9 as stated: after the successful call the pacing interval is at least
\* the interval enforced during the backoff attempts.
C9_IntervalKeptAfterSuccess ==
    After429sThen200 => dynamic_interval >= call.enforced

\* C9 as amended: after the successful call the interval is the backoff
\* interval relaxed by 0.85 and not below min_interval, so between
\* min_interval and the interval enforced during backoff; the next get call
\* starts from min_interval.
C9_IntervalRelaxedAfterSuccess ==
    /\ After429sThen200 =>
          /\ dynamic_interval = Max(MinInterval, (call.enforced * RelaxPct) \div 100)
          /\ MinInterval <= dynamic_interval
          /\ dynamic_interval <= call.enforced
    /\ (cpc = "loop" /\ call.requests = 0) => dynamic_interval = MinInterval

\* a success after three 429s, the interval having been at its ceiling
C9_Witness ==
    After429sThen200 /\ call.n429 = 3 /\ call.enforced = MaxInterval

\* C10: when the upstream answers 429 to the first K < Tries requests of a
\* call and 200 afterwards, the call returns the 200 response after
\* exactly K + 1 requests, and no 429 is surfaced as a failure.
C10_SuccessAfter429s ==
    (cpc = "done" /\ ~call.other /\ call.n429 < Tries) =>
        /\ call.result = "ok"
        /\ call.requests = call.n429 + 1
        /\ Returned(call, <<1>>).ok

\* the 200 came on the last request of the budget
C10_Witness ==
    cpc = "done" /\ call.result = "ok" /\ ~call.other /\ call.n429 = Tries - 1

\* C8: any two workers calling wait on one limiter are released at
\* instants at least the pacing interval apart.
C8_GateSerializes ==
    \A t1, t2 \in Threads :
        (t1 # t2 /\ released[t1] # None /\ released[t2] # None) =>
            \/ released[t1] - released[t2] >= dynamic_interval
            \/ released[t2] - released[t1] >= dynamic_interval

\* ===================================================== identity resolution
\* the normalized surname of a name: name_parts(...)["last"]
SurnameOf == [n \in NameCodes |-> name_parts(NameText(n)).last]

VotedIds == {res.hits[i].id : i \in DOMAIN res.hits}

\* the ids resolve_author_id_via_papers returned
ReturnedIds == IF res.via_papers = None THEN {} ELSE {res.via_papers}

VotedInOrder(hits, i, j) ==
    [k \in DOMAIN hits |-> IF k = i THEN hits[j] ELSE IF k = j THEN hits[i] ELSE hits[k]]

\* C27: of several ids with the same vote count the one Strategy A returns
\* is fixed by the counts and the ids: it is the least id with the largest
\* count, and it stays the same when the same votes arrive in another order.
C27_TieBrokenById ==
    (res.pc \in {"search", "returned"} /\ res.hits # <<>>) =>
        /\ \A k \in DOMAIN res.hits :
              (\A j \in DOMAIN res.hits : res.hits[j].count <= res.hits[k].count)
                  => res.via_papers <= res.hits[k].id
        /\ \A i, j \in DOMAIN res.hits :
              BestId(VotedInOrder(res.hits, i, j)) = res.via_papers

\* the first initial of a name: name_parts(...)["initials"][0]
FirstInitialOf == [n \in NameCodes |-> name_parts(NameText(n)).initials[1]]

ListedMismatchedOnly(a) ==
    /\ \E e \in res.listed : e.authorId = a
    /\ \A e \in res.listed :
          e.authorId = a => SurnameOf[e.name] # SurnameOf[res.name]

\* C13: names whose normalized surnames differ never match; every vote comes
\* from a name with the local name's surname; an author id listed under
\* other surnames only has no vote and is not returned by Strategy A.
C13_SurnameMismatchNoVote ==
    res.pc # "idle" =>
        /\ \A c \in NameCodes :
              SurnameOf[c] # SurnameOf[res.name] => ~MatchTable[c][res.name]
        /\ \A i \in DOMAIN res.hits : \A n \in res.hits[i].names :
              SurnameOf[n] = SurnameOf[res.name]
        /\ \A a \in AuthorIds :
              ListedMismatchedOnly(a) => (a \notin VotedIds /\ res.via_papers # a)

\* Strategy A returned an id while another author, listed on the sampled
\* papers under another surname, got no vote
C13_Witness ==
    /\ res.pc = "returned" /\ res.k = MaxSample /\ res.via_papers # None
    /\ \E a \in AuthorIds : ListedMismatchedOnly(a)

\* C14: whatever the path, an id resolved through an external candidate (a
\* voted author of Strategy A, the accepted candidate of Strategy B) comes
\* from a candidate whose surname is the local name's.
C14_NoMismatchedIdResolved ==
    res.pc = "returned" =>
        /\ \A i \in DOMAIN res.hits : \A n \in res.hits[i].names :
              SurnameOf[n] = SurnameOf[res.name]
        /\ res.accepted # None => SurnameOf[res.accepted] = SurnameOf[res.name]

\* C15: when the author search returned two or more candidates,
\* resolve_author_id returns no id and has appended exactly one entry, with
\* the name and every candidate, to error.txt; with fewer candidates it
\* appends nothing.  The call returns normally.
C15_AmbiguityFailsClosed ==
    res.pc = "returned" =>
        IF Len(res.candidates) >= 2
        THEN /\ res.author_id = None
             /\ Len(error_log) = res.log_before + 1
             /\ error_log[Len(error_log)] =
                    [date |-> today, name |-> res.name, candidates |-> res.candidates]
        ELSE Len(error_log) = res.log_before

\* the search returned as many candidates as there are authors, for the
\* second time
C15_Witness ==
    /\ res.pc = "returned" /\ Len(res.candidates) = MaxAuthors
    /\ res.candidates[1] # res.candidates[2]
    /\ res.log_before = 1 /\ Len(error_log) = 2

\* Strategy A has no vote for the name and the author search answers with
\* two or more candidates
AmbiguousFor(name, sample, cands, known) ==
    /\ known = None
    /\ Len(Candidates(cands)) >= 2
    /\ ~resolve_author_id_via_papers(name, sample).raised
    /\ resolve_author_id_via_papers(name, sample).hits = <<>>

\* C16: processing a name whose resolution is ambiguous leaves the
\* in-memory store and the store file as they were, records one ambiguity
\* entry, resolves no id (nothing is merged or saved) and goes on to the
\* next name.
C16_AmbiguousLeavesStore ==
    [][(pc = "loop" /\ idx <= MaxNames) =>
        \A cands \in RunCandidates, sample \in RunSamples,
           known \in KnownChoices(db, idx) :
            AmbiguousFor(idx, sample, cands, known) =>
                \A resp \in RunResponses :
                    ProcessNameStep(sample, cands, resp, known) =>
                        /\ db' = db /\ fileData' = fileData
                        /\ fileState' = fileState
                        /\ pc' = "loop" /\ idx' = idx + 1
                        /\ error_log' =
                              Append(error_log,
                                     [date |-> today, name |-> idx,
                                      candidates |-> Candidates(cands)])]_vars

\* an ambiguity entry was written for the name before the current one while
\* the store, in memory and on file, holds papers
C16_Witness ==
    /\ pc = "loop" /\ idx > 1
    /\ error_log # <<>> /\ error_log[Len(error_log)].name = idx - 1
    /\ run.attempted # <<>> /\ run.attempted[Len(run.attempted)] = idx - 1
    /\ fileState = "ok" /\ db = fileData /\ db.papers # <<>>

\* C17: with API answers that are payloads, empty results or failures, a
\* run attempts the names once each in input order, every run that is not
\* killed reaches the end of update_from_professors_file, and then every
\* name has been attempted.
C17_EveryNameAttemptedOnce ==
    /\ [](\A i \in DOMAIN run.attempted : run.attempted[i] = i)
    /\ [](pc = "done" => run.attempted = [i \in 1..MaxNames |-> i])
    /\ (pc = "loop" ~> pc = "done")

\* a finished run in which the first name failed altogether (no record
\* under it) and the last name has its record
C17_Witness ==
    /\ pc = "done" /\ Len(run.attempted) = MaxNames
    /\ \A a \in DOMAIN db.professors : db.professors[a].name # 1
    /\ \E a \in DOMAIN db.professors : db.professors[a].name = MaxNames

\* C18: no malformed API response received while a name is processed lets
\* an exception escape and abort the run.
C18_MalformedDoesNotAbort == pc # "aborted"

C20_IntervalInRange ==
    /\ min_interval <= dynamic_interval /\ dynamic_interval <= max_interval
    /\ backoff(dynamic_interval) >= dynamic_interval
    /\ relax(dynamic_interval) <= dynamic_interval

\* an interval strictly inside the range from which backoff hits the
\* ceiling and relax hits the floor
C20_Witness ==
    /\ min_interval < dynamic_interval /\ dynamic_interval < max_interval
    /\ backoff(dynamic_interval) = max_interval
    /\ relax(dynamic_interval) = min_interval
    /\ (dynamic_interval * RelaxPct) \div 100 < min_interval
    /\ (dynamic_interval * BackoffPct) \div 100 > max_interval

\* ===================================================== pacing of the requests
\* C21: with one caller, every request of a client starts at least
\* min_interval (and at least the current interval) after the stamp of the
\* request before, within a get call or across two get calls.
C21_RequestsPaced ==
    call.requests > 0 =>
        /\ call.apart >= min_interval
        /\ call.requests = 1 => call.apart >= call.first

\* the first request of a get call issued right after the request of the
\* call before: wait slept the whole interval
C21_Witness ==
    /\ call.requests = 1 /\ call.slept = MinInterval /\ call.apart = MinInterval

\* C29: the interval wait enforces before the first request of a get call
\* is min_interval, whatever the interval was when the call was entered.
C29_CallStartsFromBase ==
    /\ call.requests > 0 => call.first = min_interval
    /\ (cpc = "loop" /\ call.requests = 0) => dynamic_interval = min_interval

\* a get call entered with the interval left above the base by the backoffs
\* of the call before has issued its first request
C29_Witness ==
    /\ call.requests >= 1 /\ call.before > min_interval
    /\ call.first = min_interval

\* C30: a get call ends before its budget is used up only on a 200; after
\* any other outcome (another status, a 4xx included, or an exception) it
\* goes on to the next request, and a call that saw no 200 has issued
\* exactly Tries requests when it returns the failure value.
C30_OnlySuccessEndsEarly ==
    /\ (cpc = "done" /\ call.requests < Tries) => call.after = "200"
    /\ (cpc = "done" /\ call.after # "200") =>
          (call.requests = Tries /\ call.result = "none")
    /\ (call.after \in {"429", "5xx", "other"} /\ call.requests < Tries) =>
          cpc = "loop"

\* a call of nothing but other statuses and exceptions that used up its
\* budget
C30_Witness ==
    /\ cpc = "done" /\ call.result = "none" /\ call.requests = Tries
    /\ call.n429 = 0 /\ call.after = "other" /\ call.paused = 0

\* ===================================================== the store's shape
\* C22: a merge keeps every paper and every author id recorded for it: the
\* author ids of a paper after a merge include those before it.
C22_AuthorIdsOnlyGrow ==
    [][\A pid \in DOMAIN db.papers :
          /\ pid \in DOMAIN db'.papers
          /\ AuthorIdsOf(db.papers[pid].authors)
                \subseteq AuthorIdsOf(db'.papers[pid].authors)]_vars

\* a paper merged by two owning authors, each recorded under its local name
C22_Witness ==
    \E pid \in DOMAIN db.papers :
        \E i, j \in DOMAIN db.papers[pid].authors :
            /\ i < j
            /\ db.papers[pid].authors[i].authorId # db.papers[pid].authors[j].authorId
            /\ db.papers[pid].authors[i].name \in LocalNames
            /\ db.papers[pid].authors[j].name \in LocalNames

ReferencesResolve(d) ==
    \A a \in DOMAIN d.professors :
        SeqToSet(d.professors[a].paperIds) \subseteq DOMAIN d.papers

\* C23: in the store in memory and in every store written to database.json,
\* each id of a professor's paperIds is a key of the papers.
C23_PaperIdsResolve ==
    /\ ReferencesResolve(db)
    /\ fileState = "ok" => ReferencesResolve(fileData)

\* a saved store in which a professor lists every paper
C23_Witness ==
    /\ fileState = "ok" /\ fileData = db
    /\ \E a \in DOMAIN db.professors : Len(db.professors[a].paperIds) = MaxPapers

TitleOfStage(k, ix) == StageTitle(k, RawFor(k, LiTag(ix)), LiTag(ix))

\* C24: the extractor returns the title of the lowest-numbered stage that
\* finds a validated one, never that of a later stage, and returns no match
\* exactly when no stage finds one.
C24_LowestStageWins ==
    extr.pc = "done" =>
        /\ \A k \in 1..6 :
              (extr.by = 0 \/ k < extr.by) => ~TitleOfStage(k, extr.li).found
        /\ extr.by # 0 => TitleOfStage(extr.by, extr.li) = TitleFound(extr.title)
        /\ extr.by = 0 => extr.title = <<>>

\* the year-anchor stage returned its title although the sentence-split
\* stage finds another one in the same citation
C24_Witness ==
    /\ extr.pc = "done" /\ extr.by = 2
    /\ TitleOfStage(5, extr.li).found
    /\ TitleOfStage(5, extr.li).title # extr.title

\* Author, A. "An Example Title." Journal of Tests, 2020.
QuotedExample == <<1, 1, 2, 2, 2>>
\* C25: for the citation `Author, A. "An Example Title." Journal of Tests,
\* 2020.` the extractor returns the quoted span without its trailing
\* period, `An Example Title`.
C25_QuotedRoundTrip ==
    (extr.pc = "done" /\ extr.li = QuotedExample) =>
        /\ extr.by = 1
        /\ extr.title = <<"A","n"," ","E","x","a","m","p","l","e"," ","T","i","t","l","e">>

\* Smith, J., Doe, R., and Lee, K.
AuthorsOnly == <<3, 1, 1, 1, 1>>
\* C26: no title returned by the stages 2 to 6 looks like an author
\* fragment, and for `Smith, J., Doe, R., and Lee, K.` no stage returns a
\* title: the extractor reports no match.
C26_NoAuthorFragmentReturned ==
    extr.pc = "done" =>
        /\ extr.by \in 2..6 => ~looks_like_author_fragment(extr.title)
        /\ extr.li = AuthorsOnly => extr.by = 0

\* the author list alone went through all six stages and none returned
C26_Witness ==
    /\ extr.pc = "done" /\ extr.li = AuthorsOnly /\ extr.raw = AuthorParts[3]
    /\ extr.stage = 6 /\ extr.by = 0

====
